---- MODULE Spec2Model ----
(***************************************************************************)
(* Verification model of stromtracker: the price cache / price fetcher     *)
(* (core/price_api.py, database/models.py), the cost engine                *)
(* (core/calculator.py) and the session handlers (bot/handlers.py).        *)
(*                                                                         *)
(* Units.  Time is counted in ticks, TicksPerHour ticks to the hour, from  *)
(* midnight of day 0.  Raw upstream prices are integers in 1e-6 NOK/kWh,   *)
(* stored (taxed, rounded to 5 decimals) prices are integers in 1e-5       *)
(* NOK/kWh, the fixed cost is in 1e-2 NOK/kWh and watt is an integer.      *)
(* Python's round() is modelled as round-half-even on the exact quotient.  *)
(***************************************************************************)
EXTENDS Integers, Sequences, FiniteSets, Bags, TLC

VARIABLES
    price_cache,   \* rows of table price_cache
    apparater,     \* rows of table apparater
    sessions,      \* rows of table sessions
    next_id,       \* AUTOINCREMENT counters of apparater and sessions
    user_settings, \* rows of table user_settings
    keyboards,     \* bag of the inline keyboards the users can still press
    now,           \* the wall clock (Europe/Oslo), in ticks
    last           \* the latest operation: its arguments and its outcome

vars == <<price_cache, apparater, sessions, next_id, user_settings, keyboards, now, last>>
bot == <<apparater, sessions, next_id, user_settings, keyboards>>

----------------------------------------------------------------------------
(* Bounds of the model *)

TicksPerHour == 2      \* resolution of the clock
MaxHours == 2          \* longest interval handed to the cost engine, hours
ClockSpanHours == 2    \* the clock runs for this many hours
MaxApparater == 1      \* appliances ever inserted
MaxSessions == 2       \* sessions ever inserted
MaxKeyboards == 2      \* inline keyboards pressable at one time
MaxWatt == 3           \* small power settings run over -MaxWatt .. MaxWatt
BotHours == 1          \* hours that pass while the bot serves updates

----------------------------------------------------------------------------
(* Program constants *)

VALID_REGIONS == {"NO1", "NO2", "NO3", "NO4", "NO5"}
MVA_EXEMPT_REGIONS == {"NO4"}
MvaPercent == 25
HoursPerDay == 24
EmergencyPrice == 150000
WattPerKilowatt == 1000

TicksPerDay == HoursPerDay * TicksPerHour
Hours == 0 .. (HoursPerDay - 1)

----------------------------------------------------------------------------
(* datetime helpers *)

DateStr(t) == t \div TicksPerDay
HourOf(t) == (t % TicksPerDay) \div TicksPerHour
FloorToHour(t) == t - (t % TicksPerHour)
Max(a, b) == IF a >= b THEN a ELSE b
Min_first(a, b) == a
Min(a, b) == IF a <= b THEN a ELSE b

(* round(): nearest integer to n/d, ties to even; d > 0 *)
RoundHalfEven(n, d) ==
    LET q == n \div d
        r == n % d
    IN  IF 2 * r < d THEN q
        ELSE IF 2 * r > d THEN q + 1
        ELSE IF q % 2 = 0 THEN q ELSE q + 1

----------------------------------------------------------------------------
(* Optional[dict[int, float]] *)

EmptyPrices == [h \in {} |-> 0]
NoPrices == [none |-> TRUE, prices |-> EmptyPrices]
SomePrices(p) == [none |-> FALSE, prices |-> p]
Falsy(o) == o.none \/ DOMAIN o.prices = {}

----------------------------------------------------------------------------
(* database/models.py: price cache *)

(* the stored curve with the tax multiplier (in percent) applied to it     *)
(* once more on the way out                                                *)
get_cached_prices_taxed(cache, date, region) ==
    LET rows == {r \in cache : r.date = date /\ r.region = region}
        percent == IF region = "NO4" THEN 100 ELSE 125
    IN  IF rows = {} THEN NoPrices
        ELSE SomePrices([h \in {r.hour : r \in rows} |->
                            RoundHalfEven((CHOOSE r \in rows : r.hour = h).price_nok
                                             * percent, 100)])

get_cached_prices(cache, date, region) ==
    LET rows == {r \in cache : r.date = date /\ r.region = region}
    IN  IF rows = {} THEN NoPrices
        ELSE SomePrices([h \in {r.hour : r \in rows} |->
                            (CHOOSE r \in rows : r.hour = h).price_nok])

cache_prices(cache, date, region, prices) ==
    {r \in cache : ~(r.date = date /\ r.region = region /\ r.hour \in DOMAIN prices)}
      \cup {[date |-> date, region |-> region, hour |-> h, price_nok |-> prices[h]] :
               h \in DOMAIN prices}

----------------------------------------------------------------------------
(* database/models.py: appliances, sessions, settings.  NULL is -1. *)

NULL == -1

Names == {"Heater", "heater"}
(* COLLATE NOCASE *)
NoCase(name) == IF name = "Heater" THEN "heater" ELSE name

MatchingApparat(tbl, user_id, name) ==
    {a \in tbl : a.user_id = user_id /\ NoCase(a.name) = NoCase(name)}

(* INSERT; the UNIQUE(user_id, name COLLATE NOCASE) constraint makes it fail *)
add_apparat(tbl, id, user_id, name, low_watt, high_watt) ==
    IF MatchingApparat(tbl, user_id, name) # {}
    THEN [ok |-> FALSE, apparater |-> tbl]
    ELSE [ok |-> TRUE,
          apparater |-> tbl \cup {[id |-> id, user_id |-> user_id, name |-> name,
                                   low_watt |-> low_watt, high_watt |-> high_watt]}]

get_apparat(tbl, user_id, name) == MatchingApparat(tbl, user_id, name)

get_all_apparater(tbl, user_id) == {a \in tbl : a.user_id = user_id}

delete_apparat(tbl, user_id, name) ==
    [ok |-> MatchingApparat(tbl, user_id, name) # {},
     apparater |-> tbl \ MatchingApparat(tbl, user_id, name)]

start_session(tbl, id, user_id, apparat_id, watt_mode, actual_watt, clock) ==
    tbl \cup {[id |-> id, user_id |-> user_id, apparat_id |-> apparat_id,
               start_time |-> clock, end_time |-> NULL, watt_mode |-> watt_mode,
               actual_watt |-> actual_watt, kwh |-> NULL, spot_cost_nok |-> NULL,
               fixed_cost_nok |-> NULL, total_cost_nok |-> NULL, cancelled |-> FALSE]}

(* the rows of SELECT ... FROM sessions s JOIN apparater a ...; fetchone()  *)
(* returns one of them                                                     *)
get_active_session(stbl, atbl, user_id) ==
    {[session |-> s, apparat_name |-> a.name] :
        <<s, a>> \in {x \in stbl \X atbl :
                         /\ x[1].apparat_id = x[2].id
                         /\ x[1].user_id = user_id
                         /\ x[1].end_time = NULL
                         /\ ~x[1].cancelled}}

(* UPDATE sessions SET ... without the WHERE id = ? *)
end_session_every_row(tbl, session_id, kwh, spot_cost, fixed_cost, total_cost, clock) ==
    {[s EXCEPT !.end_time = clock, !.kwh = kwh, !.spot_cost_nok = spot_cost,
               !.fixed_cost_nok = fixed_cost, !.total_cost_nok = total_cost] : s \in tbl}

end_session(tbl, session_id, kwh, spot_cost, fixed_cost, total_cost, clock) ==
    {IF s.id = session_id
     THEN [s EXCEPT !.end_time = clock, !.kwh = kwh, !.spot_cost_nok = spot_cost,
                    !.fixed_cost_nok = fixed_cost, !.total_cost_nok = total_cost]
     ELSE s : s \in tbl}

cancel_session(tbl, session_id, clock) ==
    {IF s.id = session_id
     THEN [s EXCEPT !.cancelled = TRUE, !.end_time = clock]
     ELSE s : s \in tbl}

(* datetime.date and calendar.monthrange: a date is kept as the number     *)
(* yyyymmdd, which orders as its isoformat() string does; date() raises    *)
(* ValueError outside MINYEAR .. MAXYEAR and for a day the month lacks     *)
MINYEAR == 1
MAXYEAR == 9999
isleap(year) == year % 4 = 0 /\ (year % 100 # 0 \/ year % 400 = 0)
mdays == <<31, 28, 31, 30, 31, 30, 31, 31, 30, 31, 30, 31>>
monthrange(year, month) == mdays[month] + (IF month = 2 /\ isleap(year) THEN 1 ELSE 0)
isoformat(year, month, day) == year * 10000 + month * 100 + day
NoDate == [raised |-> TRUE, iso |-> 0]
Date(year, month, day) ==
    IF /\ year \in MINYEAR .. MAXYEAR /\ month \in 1 .. 12
       /\ day \in 1 .. monthrange(year, month)
    THEN [raised |-> FALSE, iso |-> isoformat(year, month, day)]
    ELSE NoDate

(* the calendar date of the clock: day 0 of the clock is EpochDay *)
EpochDay == [year |-> 2025, month |-> 3, day |-> 4]
RECURSIVE DaysAfter(_, _)
DaysAfter(d, n) ==
    IF n = 0 THEN d
    ELSE IF d.day < monthrange(d.year, d.month)
    THEN DaysAfter([d EXCEPT !.day = @ + 1], n - 1)
    ELSE IF d.month < 12
    THEN DaysAfter([d EXCEPT !.month = @ + 1, !.day = 1], n - 1)
    ELSE DaysAfter([year |-> d.year + 1, month |-> 1, day |-> 1], n - 1)
Today(clock) == DaysAfter(EpochDay, DateStr(clock))
(* SQL date(): the date part of a stored timestamp *)
SqlDate(clock) == isoformat(Today(clock).year, Today(clock).month, Today(clock).day)

(* the period start and end dates of get_monthly_sessions *)
(* the preceding month taken in the same year, also for January *)
PeriodWindow_rolling_same_year(year, month, period_start_day) ==
    LET prev_month == IF month = 1 THEN 12 ELSE month - 1
    IN  [start_date |-> Date(year, prev_month, period_start_day),
         end_date |-> IF period_start_day > 1
                      THEN Date(year, month, period_start_day - 1)
                      ELSE Date(year, month, monthrange(year, month))]

PeriodWindow_rolling(year, month, period_start_day) ==
    LET prev_month == IF month = 1 THEN 12 ELSE month - 1
        prev_year == IF month = 1 THEN year - 1 ELSE year
    IN  [start_date |-> Date(prev_year, prev_month, period_start_day),
         end_date |-> IF period_start_day > 1
                      THEN Date(year, month, period_start_day - 1)
                      ELSE Date(year, month, monthrange(year, month))]

(* without the branch for period_start_day == 1 *)
PeriodWindow_always_rolling(year, month, period_start_day) ==
    PeriodWindow_rolling(year, month, period_start_day)

PeriodWindow(year, month, period_start_day) ==
    IF period_start_day = 1
    THEN [start_date |-> Date(year, month, 1),
          end_date |-> Date(year, month, monthrange(year, month))]
    ELSE PeriodWindow_rolling(year, month, period_start_day)

NoWindow == [start_date |-> NoDate, end_date |-> NoDate]

(* the rows of SELECT s.*, a.name ... JOIN ... BETWEEN ? AND ? *)
MonthlyRows(stbl, atbl, user_id, window) ==
    {[session |-> x[1], apparat_name |-> x[2].name] :
        x \in {y \in stbl \X atbl :
                  /\ y[1].apparat_id = y[2].id
                  /\ y[1].user_id = user_id
                  /\ y[1].end_time # NULL
                  /\ ~y[1].cancelled
                  /\ SqlDate(y[1].end_time) >= window.start_date.iso
                  /\ SqlDate(y[1].end_time) <= window.end_date.iso}}

MonthlyResult(stbl, atbl, user_id, window) ==
    IF window.start_date.raised \/ window.end_date.raised
    THEN [raised |-> TRUE, window |-> window, rows |-> {}]
    ELSE [raised |-> FALSE, window |-> window,
          rows |-> MonthlyRows(stbl, atbl, user_id, window)]

get_monthly_sessions(stbl, atbl, user_id, year, month, period_start_day) ==
    MonthlyResult(stbl, atbl, user_id, PeriodWindow(year, month, period_start_day))

(* the rows of SELECT s.*, a.name ... ORDER BY s.end_time DESC LIMIT ?; the *)
(* handlers ask for 10 and for 100 rows, more than MaxSessions             *)
get_session_history(stbl, atbl, user_id) ==
    {[session |-> x[1], apparat_name |-> x[2].name] :
        x \in {y \in stbl \X atbl :
                  /\ y[1].apparat_id = y[2].id
                  /\ y[1].user_id = user_id
                  /\ y[1].end_time # NULL
                  /\ ~y[1].cancelled}}

(* the rows the DELETE of clear_sessions looks at: every user's *)
ClearWhere_every_user(s, user_id) == TRUE

ClearWhere(s, user_id) == s.user_id = user_id

(* month and year are NULL when not given; 0 is as good as not given *)
clear_sessions(tbl, user_id, month, year) ==
    IF month \notin {NULL, 0} /\ year \notin {NULL, 0}
    THEN IF Date(year, month, 1).raised
         THEN [raised |-> TRUE, sessions |-> tbl]
         ELSE [raised |-> FALSE,
               sessions |->
                  {s \in tbl :
                      ~(/\ ClearWhere(s, user_id)
                        /\ s.end_time # NULL
                        /\ SqlDate(s.end_time) >= isoformat(year, month, 1)
                        /\ SqlDate(s.end_time) <=
                              isoformat(year, month, monthrange(year, month)))}]
    ELSE [raised |-> FALSE, sessions |-> {s \in tbl : ~ClearWhere(s, user_id)}]

DefaultSettings(user_id) ==
    [user_id |-> user_id, fixed_cost_nok |-> 100, budget_nok |-> NULL,
     period_start_day |-> 1, region |-> "NO1", max_duration_hours |-> 0]

(* get or create: the table afterwards and the user's row *)
get_user_settings(tbl, user_id) ==
    IF \E r \in tbl : r.user_id = user_id
    THEN [user_settings |-> tbl, row |-> CHOOSE r \in tbl : r.user_id = user_id]
    ELSE [user_settings |-> tbl \cup {DefaultSettings(user_id)},
          row |-> DefaultSettings(user_id)]

(* update_user_setting(user_id, **kwargs): after get-or-create, one UPDATE  *)
(* ... SET key = value WHERE user_id = ? for every keyword that names one  *)
(* of the five columns; any other keyword is skipped                       *)
SettingColumns ==
    {"fixed_cost_nok", "budget_nok", "period_start_day", "region", "max_duration_hours"}

(* the rows the UPDATE changes: every row instead of the user's *)
UpdateWhere_every_row(r, user_id) == TRUE

UpdateWhere(r, user_id) == r.user_id = user_id

UpdatedRow(r, kwargs) ==
    [c \in DOMAIN r |-> IF c \in DOMAIN kwargs \cap SettingColumns THEN kwargs[c]
                        ELSE r[c]]

UpdateUserSetting(tbl, user_id, kwargs) ==
    {IF UpdateWhere(r, user_id) THEN UpdatedRow(r, kwargs) ELSE r :
        r \in get_user_settings(tbl, user_id).user_settings}

(* the call with one keyword *)
update_user_setting(tbl, user_id, key, value) ==
    UpdateUserSetting(tbl, user_id, [k \in {key} |-> value])

----------------------------------------------------------------------------
(* core/alerts.py.  Stored energy is in 1e-4 kWh and stored money in 1e-2  *)
(* NOK; the summary reports both in 1e-2.                                  *)

WarningPercent == 80
ExceededPercent == 100
LongSessionHours == 2

(* Optional[float] of the summary *)
NoAmount == [none |-> TRUE, val |-> 0]
SomeAmount(v) == [none |-> FALSE, val |-> v]

(* s.get(field, 0) or 0 *)
OrZero(v) == IF v = NULL THEN 0 ELSE v
RECURSIVE SumField(_, _)
SumField(rows, field) ==
    IF rows = {} THEN 0
    ELSE LET r == CHOOSE x \in rows : TRUE
         IN  OrZero(r.session[field]) + SumField(rows \ {r}, field)

(* datetime.now(NORWAY_TZ).year and .month, or the arguments given *)
YearOr(year, clock) == IF year = NULL THEN Today(clock).year ELSE year
MonthOr(month, clock) == IF month = NULL THEN Today(clock).month ELSE month

(* the ladder of check_budget_alert; percentage = total_cost / budget * 100 *)
BudgetLadder_warning_first(total_cost, budget) ==
    IF total_cost * 100 >= WarningPercent * budget THEN "warning"
    ELSE IF total_cost * 100 >= ExceededPercent * budget THEN "exceeded"
    ELSE "none"

BudgetLadder(total_cost, budget) ==
    IF total_cost * 100 >= ExceededPercent * budget THEN "exceeded"
    ELSE IF total_cost * 100 >= WarningPercent * budget THEN "warning"
    ELSE "none"

NoAlert == [raised |-> FALSE, alert |-> "none"]
Raised == [raised |-> TRUE, alert |-> "none"]

(* m is what get_monthly_sessions returned *)
BudgetAlertOver(m, budget) ==
    IF m.raised THEN Raised
    ELSE [raised |-> FALSE,
          alert |-> BudgetLadder(SumField(m.rows, "total_cost_nok"), budget)]

(* g is what get_user_settings returned *)
BudgetAlertFor(stbl, atbl, g, user_id, clock) ==
    IF g.row.budget_nok = NULL \/ g.row.budget_nok <= 0
    THEN [user_settings |-> g.user_settings, ret |-> NoAlert]
    ELSE [user_settings |-> g.user_settings,
          ret |-> BudgetAlertOver(
                      get_monthly_sessions(stbl, atbl, user_id, Today(clock).year,
                                           Today(clock).month, g.row.period_start_day),
                      g.row.budget_nok)]

check_budget_alert(stbl, atbl, utbl, user_id, clock) ==
    BudgetAlertFor(stbl, atbl, get_user_settings(utbl, user_id), user_id, clock)

(* the alert for the row fetchone() returned *)
RuntimeAlertOf(row, clock) ==
    IF clock - row.session.start_time >= LongSessionHours * TicksPerHour
    THEN "long_session" ELSE "none"

(* the outcomes of check_runtime_alert: one per row fetchone() may return *)
check_runtime_alert(stbl, atbl, user_id, clock) ==
    IF get_active_session(stbl, atbl, user_id) = {} THEN {"none"}
    ELSE {RuntimeAlertOf(row, clock) : row \in get_active_session(stbl, atbl, user_id)}

MaxDurationAlertOf(row, max_hours, clock) ==
    IF clock - row.session.start_time >= max_hours * TicksPerHour
    THEN "max_duration" ELSE "none"

MaxDurationAlerts(stbl, atbl, g, user_id, clock) ==
    IF g.row.max_duration_hours = NULL \/ g.row.max_duration_hours <= 0 THEN {"none"}
    ELSE IF get_active_session(stbl, atbl, user_id) = {} THEN {"none"}
    ELSE {MaxDurationAlertOf(row, g.row.max_duration_hours, clock) :
             row \in get_active_session(stbl, atbl, user_id)}

(* the settings table afterwards and the outcomes of check_max_duration *)
check_max_duration(stbl, atbl, utbl, user_id, clock) ==
    [user_settings |-> get_user_settings(utbl, user_id).user_settings,
     alerts |-> MaxDurationAlerts(stbl, atbl, get_user_settings(utbl, user_id),
                                  user_id, clock)]

NoSummary ==
    [raised |-> FALSE, session_count |-> 0, total_kwh |-> 0, total_cost |-> 0,
     spot_cost |-> 0, fixed_cost |-> 0, avg_price_per_kwh |-> 0, budget |-> NULL,
     remaining |-> NoAmount, region |-> "NO1"]

(* the average taken over the energy as reported, rounded to 1e-2 kWh *)
AvgPrice_of_rounded(total_cost, total_kwh) ==
    IF total_kwh > 0
    THEN RoundHalfEven(total_cost * 100, RoundHalfEven(total_kwh, 100))
    ELSE 0

(* round(total_cost / total_kwh, 2), the sums being in 1e-2 NOK and 1e-4 kWh *)
AvgPrice(total_cost, total_kwh) ==
    IF total_kwh > 0 THEN RoundHalfEven(total_cost * 10000, total_kwh) ELSE 0

(* the returned dict, from the four sums *)
SummaryOf(rows, total_kwh, total_cost, total_spot, total_fixed, row) ==
    [raised |-> FALSE,
     session_count |-> Cardinality(rows),
     total_kwh |-> RoundHalfEven(total_kwh, 100),
     total_cost |-> total_cost,
     spot_cost |-> total_spot,
     fixed_cost |-> total_fixed,
     avg_price_per_kwh |-> AvgPrice(total_cost, total_kwh),
     budget |-> row.budget_nok,
     remaining |-> IF row.budget_nok = NULL \/ row.budget_nok = 0 THEN NoAmount
                   ELSE SomeAmount(row.budget_nok - total_cost),
     region |-> row.region]

SummaryOver(m, row) ==
    IF m.raised THEN [NoSummary EXCEPT !.raised = TRUE]
    ELSE SummaryOf(m.rows, SumField(m.rows, "kwh"), SumField(m.rows, "total_cost_nok"),
                   SumField(m.rows, "spot_cost_nok"), SumField(m.rows, "fixed_cost_nok"),
                   row)

SummaryFor(stbl, atbl, g, user_id, year, month) ==
    [user_settings |-> g.user_settings,
     ret |-> SummaryOver(get_monthly_sessions(stbl, atbl, user_id, year, month,
                                              g.row.period_start_day), g.row)]

get_monthly_summary(stbl, atbl, utbl, user_id, year, month, clock) ==
    SummaryFor(stbl, atbl, get_user_settings(utbl, user_id), user_id,
               YearOr(year, clock), MonthOr(month, clock))

----------------------------------------------------------------------------
(* The upstream price source: what one GET of a day's file can answer.     *)
(* items is the decoded JSON list; a record of it may lack a field.        *)

Response(kind, status, decodable, is_list, items) ==
    [kind |-> kind, status |-> status, decodable |-> decodable,
     is_list |-> is_list, items |-> items]

ConnError == Response("conn_error", 0, FALSE, FALSE, <<>>)
Timeout == Response("timeout", 0, FALSE, FALSE, <<>>)
Http(status, items) == Response("http", status, TRUE, TRUE, items)
Undecodable == Response("http", 200, FALSE, FALSE, <<>>)
NotAList == Response("http", 200, TRUE, FALSE, <<>>)

Entry(hour, raw) == [time_start |-> hour, NOK_per_kWh |-> raw]
EntryOk(e) == "time_start" \in DOMAIN e /\ "NOK_per_kWh" \in DOMAIN e

----------------------------------------------------------------------------
(* core/price_api.py *)

MvaMultiplier(region) ==
    IF region \in MVA_EXEMPT_REGIONS THEN 100 ELSE 100 + MvaPercent

PriceWithMva(raw, region) ==
    RoundHalfEven(raw * MvaMultiplier(region), 100 * 10)

(* the parse loop: prices[hour] = round(raw * mva_multiplier, 5), in order *)
RECURSIVE ParsePrices(_, _)
ParsePrices(items, region) ==
    IF items = <<>> THEN EmptyPrices
    ELSE LET n == Len(items)
             before == ParsePrices(SubSeq(items, 1, n - 1), region)
             e == items[n]
         IN  [h \in (DOMAIN before) \cup {e.time_start} |->
                 IF h = e.time_start THEN PriceWithMva(e.NOK_per_kWh, region)
                 ELSE before[h]]

(* the conditions of fetch_daily_prices *)
RegionRejected_never(region) == FALSE
RegionRejected(region) == region \notin VALID_REGIONS

CacheHit_never(cached) == FALSE
CacheHit(cached) == ~Falsy(cached)

(* State threaded through one handler: the cache, the upstream requests    *)
(* issued so far (per date; the region is fixed within a handler) and      *)
(* whether an exception is propagating.                                    *)
Requested(st, date) == [st.requests EXCEPT ![date] = @ + 1]

fetch_daily_prices(st, date, region, upstream) ==
    IF RegionRejected(region)
    THEN [st |-> st, ret |-> NoPrices]
    ELSE
    LET date_str == DateStr(date)
        cached == get_cached_prices(st.cache, date_str, region)
        up == upstream[date_str]
        asked == [st EXCEPT !.requests = Requested(st, date_str)]
    IN  IF CacheHit(cached)
        THEN [st |-> st, ret |-> cached]
        ELSE IF up.kind # "http" \/ up.status # 200 \/ ~up.decodable
        THEN [st |-> asked, ret |-> NoPrices]
        ELSE IF ~up.is_list \/ (\E i \in DOMAIN up.items : ~EntryOk(up.items[i]))
        THEN [st |-> [asked EXCEPT !.raised = TRUE], ret |-> NoPrices]
        ELSE LET prices == ParsePrices(up.items, region)
             IN  [st |-> [asked EXCEPT
                            !.cache = cache_prices(st.cache, date_str, region, prices)],
                  ret |-> SomePrices(prices)]

(* fetch_daily_prices from the point where it resumes with the response:   *)
(* the cache afterwards, the return value and what was handed to           *)
(* cache_prices.  The cache was read before the request was awaited.       *)
FetchStore(cache, date_str, region, prices) ==
    [cache |-> cache_prices(cache, date_str, region, prices), raised |-> FALSE,
     ret |-> SomePrices(prices), wrote |-> SomePrices(prices)]

FetchResume(cache, date_str, region, up) ==
    IF up.kind # "http" \/ up.status # 200 \/ ~up.decodable
    THEN [cache |-> cache, raised |-> FALSE, ret |-> NoPrices, wrote |-> NoPrices]
    ELSE IF ~up.is_list \/ (\E i \in DOMAIN up.items : ~EntryOk(up.items[i]))
    THEN [cache |-> cache, raised |-> TRUE, ret |-> NoPrices, wrote |-> NoPrices]
    ELSE FetchStore(cache, date_str, region, ParsePrices(up.items, region))

(* Optional[float] *)
NoPrice == [none |-> TRUE, val |-> 0]
SomePrice(p) == [none |-> FALSE, val |-> p]
DictGet(o, hour) ==
    IF hour \in DOMAIN o.prices THEN SomePrice(o.prices[hour]) ELSE NoPrice

(* the tail shared by the two lookups: None unless the day's curve came    *)
(* back, else the entry of the hour; f is what fetch_daily_prices returned *)
PricesGet(f, hour) ==
    IF f.st.raised \/ Falsy(f.ret)
    THEN [st |-> f.st, ret |-> NoPrice]
    ELSE [st |-> f.st, ret |-> DictGet(f.ret, hour)]

get_current_price(st, clock, region, upstream) ==
    PricesGet(fetch_daily_prices(st, clock, region, upstream), HourOf(clock))

get_price_for_hour(st, dt, region, upstream) ==
    PricesGet(fetch_daily_prices(st, dt, region, upstream), HourOf(dt))

(* the while loop of get_prices_for_period, from hour bucket current on *)
RECURSIVE PeriodLoop(_, _, _, _, _, _)
(* one pass of the loop body, g being what get_price_for_hour returned *)
PeriodStep(g, prices_list, current, end, region, upstream) ==
    PeriodLoop(g.st,
               IF g.ret.none THEN prices_list
               ELSE Append(prices_list, <<current, g.ret.val>>),
               current + TicksPerHour, end, region, upstream)

PeriodLoop(st, prices_list, current, end, region, upstream) ==
    IF st.raised \/ ~(current < end)
    THEN [st |-> st, ret |-> prices_list]
    ELSE PeriodStep(get_price_for_hour(st, current, region, upstream),
                    prices_list, current, end, region, upstream)

get_prices_for_period(st, start, end, region, upstream) ==
    PeriodLoop(st, <<>>, FloorToHour(start), end, region, upstream)

----------------------------------------------------------------------------
(* core/calculator.py *)

(* the two settings added up and not halved *)
calculate_watt_sum(low_watt, high_watt, mode) ==
    IF mode = "low" THEN low_watt
    ELSE IF mode = "high" THEN high_watt
    ELSE low_watt + high_watt

(* the average rounded half up instead of down *)
calculate_watt_half_up(low_watt, high_watt, mode) ==
    IF mode = "low" THEN low_watt
    ELSE IF mode = "high" THEN high_watt
    ELSE (low_watt + high_watt + 1) \div 2

calculate_watt(low_watt, high_watt, mode) ==
    IF mode = "low" THEN low_watt
    ELSE IF mode = "high" THEN high_watt
    ELSE (low_watt + high_watt) \div 2

(* Exact sums are kept as numerators: energy_num / (TicksPerHour * 1000)   *)
(* is kWh, spot_num / (TicksPerHour * 1000 * 100000) is NOK.  The rounded  *)
(* fields are in 1e-2 h, 1e-4 kWh, 1e-2 NOK and 1e-4 NOK/kWh.              *)
KwhDen == TicksPerHour * WattPerKilowatt
RoundHours(ticks) == RoundHalfEven(ticks * 100, TicksPerHour)
RoundKwh(energy_num) == RoundHalfEven(energy_num * 10, TicksPerHour)
RoundSpot(spot_num) == RoundHalfEven(spot_num, TicksPerHour * 1000000)
RoundFixed(energy_num, fixed_cost_per_kwh) ==
    RoundHalfEven(energy_num * fixed_cost_per_kwh, KwhDen)
RoundTotal_of_rounded(spot_num, energy_num, fixed_cost_per_kwh) ==
    RoundSpot(spot_num) + RoundFixed(energy_num, fixed_cost_per_kwh)
RoundTotal(spot_num, energy_num, fixed_cost_per_kwh) ==
    RoundHalfEven(spot_num + energy_num * fixed_cost_per_kwh * 1000,
                  TicksPerHour * 1000000)
RoundPrice4(price) == RoundHalfEven(price, 10)

(* The result dict.  raised: an exception left the function instead.  The   *)
(* locals len(hourly_prices), total_kwh and total_spot_cost are kept next  *)
(* to the dict's keys as priced, energy_num and spot_num.                  *)
Result(raised, priced, hours, energy_num, spot_num, kwh, spot_cost, fixed_cost, total_cost, avg_spot_price, hourly_breakdown) ==
    [raised |-> raised, priced |-> priced, hours |-> hours,
     energy_num |-> energy_num, spot_num |-> spot_num,
     kwh |-> kwh, spot_cost |-> spot_cost, fixed_cost |-> fixed_cost,
     total_cost |-> total_cost, avg_spot_price |-> avg_spot_price,
     hourly_breakdown |-> hourly_breakdown]

ZeroResult == Result(FALSE, 0, 0, 0, 0, 0, 0, 0, 0, 0, <<>>)
RaisedResult(priced) == Result(TRUE, priced, 0, 0, 0, 0, 0, 0, 0, 0, <<>>)

(* the for loop over hourly_prices: acc holds total_kwh, total_spot_cost   *)
(* and the breakdown                                                       *)
RECURSIVE HourLoop(_, _, _, _, _)
HourLoop(acc, hourly_prices, start_time, end_time, watt) ==
    IF hourly_prices = <<>> THEN acc
    ELSE LET hour_start == Head(hourly_prices)[1]
             price == Head(hourly_prices)[2]
             hour_end == hour_start + TicksPerHour
             actual_start == Max(hour_start, start_time)
             actual_end == Min(hour_end, end_time)
             hour_fraction == actual_end - actual_start
             hour_kwh == hour_fraction * watt
             hour_spot_cost == hour_kwh * price
             next == IF hour_fraction <= 0 THEN acc
                     ELSE [total_kwh |-> acc.total_kwh + hour_kwh,
                           total_spot_cost |-> acc.total_spot_cost + hour_spot_cost,
                           breakdown |-> Append(acc.breakdown,
                              [hour |-> HourOf(hour_start),
                               fraction |-> RoundHours(hour_fraction),
                               price |-> RoundPrice4(price),
                               kwh |-> RoundKwh(hour_kwh),
                               cost |-> RoundSpot(hour_spot_cost)])]
         IN  HourLoop(next, Tail(hourly_prices), start_time, end_time, watt)

Degenerate_inverted_only(total_hours) == total_hours < 0
Degenerate(total_hours) == total_hours <= 0

(* the fallback branch, c being what get_current_price returned *)
FallbackCost(c, total_hours, watt, fixed_cost_per_kwh) ==
    LET current_price == IF c.ret.none THEN EmergencyPrice ELSE c.ret.val
        kwh == total_hours * watt
        spot_cost == kwh * current_price
    IN  IF c.st.raised THEN [st |-> c.st, ret |-> RaisedResult(0)]
        ELSE [st |-> c.st,
              ret |-> Result(FALSE, 0, RoundHours(total_hours), kwh, spot_cost,
                             RoundKwh(kwh), RoundSpot(spot_cost),
                             RoundFixed(kwh, fixed_cost_per_kwh),
                             RoundTotal(spot_cost, kwh, fixed_cost_per_kwh),
                             RoundPrice4(current_price), <<>>)]

(* the totals after the hour loop, acc being what the loop accumulated *)
HourlyCost(st, priced, acc, total_hours, fixed_cost_per_kwh) ==
    [st |-> st,
     ret |-> Result(FALSE, priced, RoundHours(total_hours),
                    acc.total_kwh, acc.total_spot_cost,
                    RoundKwh(acc.total_kwh), RoundSpot(acc.total_spot_cost),
                    RoundFixed(acc.total_kwh, fixed_cost_per_kwh),
                    RoundTotal(acc.total_spot_cost, acc.total_kwh, fixed_cost_per_kwh),
                    IF acc.total_kwh > 0
                    THEN RoundHalfEven(acc.total_spot_cost, acc.total_kwh * 10)
                    ELSE 0,
                    acc.breakdown)]

(* the function from the price lookup on, p being what                     *)
(* get_prices_for_period returned                                          *)
CostOfPeriod(p, start_time, end_time, watt, fixed_cost_per_kwh, region, upstream, clock) ==
    IF p.st.raised THEN [st |-> p.st, ret |-> RaisedResult(Len(p.ret))]
    ELSE IF p.ret = <<>>
    THEN FallbackCost(get_current_price(p.st, clock, region, upstream),
                      end_time - start_time, watt, fixed_cost_per_kwh)
    ELSE HourlyCost(p.st, Len(p.ret),
                    HourLoop([total_kwh |-> 0, total_spot_cost |-> 0, breakdown |-> <<>>],
                             p.ret, start_time, end_time, watt),
                    end_time - start_time, fixed_cost_per_kwh)

(* returns the handler state after the call and the result dict; clock is  *)
(* datetime.now() as read by get_current_price on the fallback path        *)
calculate_session_cost(st, start_time, end_time, watt, fixed_cost_per_kwh, region, upstream, clock) ==
    IF Degenerate(end_time - start_time) THEN [st |-> st, ret |-> ZeroResult]
    ELSE CostOfPeriod(get_prices_for_period(st, start_time, end_time, region, upstream),
                      start_time, end_time, watt, fixed_cost_per_kwh, region,
                      upstream, clock)

estimate_current_cost(st, start_time, watt, fixed_cost_per_kwh, region, upstream, clock) ==
    calculate_session_cost(st, start_time, clock, watt, fixed_cost_per_kwh,
                           region, upstream, clock)

----------------------------------------------------------------------------
(* Inputs of the model *)

(* the clock starts in the last hour of day 0 *)
ClockStart == (HoursPerDay - 1) * TicksPerHour
ClockEnd == ClockStart + ClockSpanHours * TicksPerHour
Times == ClockStart .. ClockEnd
Dates == DateStr(ClockStart) .. DateStr(ClockEnd)

InputRegions == {"NO1", "XX"}
Watts == {750}
FixedCosts == {100}

(* upstream curves: raw prices in 1e-6 NOK/kWh *)
FlatCurve == [i \in 1 .. HoursPerDay |-> Entry(i - 1, 968004)]
RampCurve == [i \in 1 .. HoursPerDay |-> Entry(i - 1, 400000 + 20000 * (i - 1))]
PartialCurve == SubSeq(FlatCurve, 1, HoursPerDay - 1)
BrokenCurve == <<Entry(0, 968004), [time_start |-> 1]>>

FailedAnswers == {ConnError, Timeout, Http(500, FlatCurve), Undecodable}
MalformedAnswers == {NotAList, Http(200, BrokenCurve)}
CurveAnswers == {Http(200, RampCurve), Http(200, PartialCurve), Http(200, <<>>)}
UpstreamAnswers == FailedAnswers \cup MalformedAnswers \cup CurveAnswers

(* what the upstream answers, per date, while one call runs: a fetch sees  *)
(* one date, a cost calculation may see several                            *)
SameEveryDay(up) == [d \in Dates |-> up]
CostAnswers == {ConnError, NotAList, Http(200, RampCurve), Http(200, PartialCurve)}
CostUpstreams == [Dates -> CostAnswers]

(* the fetch_daily_prices coroutines in flight: where each one stands, its  *)
(* key and what it handed to cache_prices                                  *)
Fetchers == {1, 2}
NoFetcher == [pc |-> "idle", date |-> 0, region |-> "NO1", wrote |-> NoPrices]
NoFetchers == [t \in Fetchers |-> NoFetcher]

NoRequests == [d \in Dates |-> 0]
NoCall ==
    [phase |-> "idle", op |-> "none", user |-> 0, date |-> 0, region |-> "NO1",
     start_time |-> 0, end_time |-> 0, watt |-> 0, fixed |-> 0, clock |-> 0,
     low_watt |-> 0, high_watt |-> 0, mode |-> "avg",
     year |-> 0, month |-> 0, period_start_day |-> 0, window |-> NoWindow, rows |-> {},
     summary |-> NoSummary, alert |-> "none", fetchers |-> NoFetchers,
     name |-> "", ok |-> FALSE, session_id |-> 0, deleted |-> {},
     settings |-> DefaultSettings(0), kwargs |-> << >>,
     upstream |-> SameEveryDay(ConnError), requests |-> NoRequests, raised |-> FALSE,
     prices |-> NoPrices, price |-> NoPrice, result |-> ZeroResult]

Handler(cache) == [cache |-> cache, requests |-> NoRequests, raised |-> FALSE]

----------------------------------------------------------------------------
(* The price fetcher and the cost engine called directly: SpecCore.        *)
(* A call is made, runs to completion against the upstream, and its        *)
(* outcome is taken by the caller.                                         *)

InitCore ==
    /\ price_cache = {}
    /\ apparater = {}
    /\ sessions = {}
    /\ next_id = [apparater |-> 1, sessions |-> 1]
    /\ user_settings = {}
    /\ keyboards = EmptyBag
    /\ now = ClockStart
    /\ last = NoCall

Tick ==
    /\ last.phase = "idle"
    /\ now < ClockEnd
    /\ now' = now + 1
    /\ UNCHANGED <<price_cache, bot, last>>

CallFetch ==
    /\ last.phase = "idle"
    /\ \E date \in Times, region \in InputRegions :
          last' = [NoCall EXCEPT !.phase = "called", !.op = "fetch_daily_prices",
                                   !.date = date, !.region = region]
    /\ UNCHANGED <<price_cache, bot, now>>

CallCurrentPrice ==
    /\ last.phase = "idle"
    /\ \E region \in InputRegions :
          last' = [NoCall EXCEPT !.phase = "called", !.op = "get_current_price",
                                   !.region = region]
    /\ UNCHANGED <<price_cache, bot, now>>

CallCost ==
    /\ last.phase = "idle"
    /\ \E start_time \in Times, end_time \in Times, watt \in Watts,
          fixed \in FixedCosts, region \in InputRegions :
          /\ end_time - start_time <= MaxHours * TicksPerHour
          /\ start_time - end_time <= 1
          /\ last' = [NoCall EXCEPT !.phase = "called", !.op = "calculate_session_cost",
                                      !.start_time = start_time, !.end_time = end_time,
                                      !.watt = watt, !.fixed = fixed, !.region = region]
    /\ UNCHANGED <<price_cache, bot, now>>

CallEstimate ==
    /\ last.phase = "idle"
    /\ \E start_time \in Times, watt \in Watts, fixed \in FixedCosts,
          region \in InputRegions :
          /\ now - start_time <= MaxHours * TicksPerHour
          /\ start_time <= now
          /\ last' = [NoCall EXCEPT !.phase = "called", !.op = "estimate_current_cost",
                                      !.start_time = start_time, !.end_time = now,
                                      !.watt = watt, !.fixed = fixed, !.region = region]
    /\ UNCHANGED <<price_cache, bot, now>>

RunFetch ==
    /\ last.phase = "called" /\ last.op = "fetch_daily_prices"
    /\ \E up \in UpstreamAnswers :
          LET f == fetch_daily_prices(Handler(price_cache), last.date, last.region,
                                      SameEveryDay(up))
          IN  /\ price_cache' = f.st.cache
              /\ last' = [last EXCEPT !.phase = "returned", !.clock = now,
                                      !.upstream = SameEveryDay(up),
                                      !.requests = f.st.requests,
                                      !.raised = f.st.raised, !.prices = f.ret]
    /\ UNCHANGED <<bot, now>>

RunCurrentPrice ==
    /\ last.phase = "called" /\ last.op = "get_current_price"
    /\ \E up \in UpstreamAnswers :
          LET c == get_current_price(Handler(price_cache), now, last.region,
                                     SameEveryDay(up))
          IN  /\ price_cache' = c.st.cache
              /\ last' = [last EXCEPT !.phase = "returned", !.clock = now, !.date = now,
                                      !.upstream = SameEveryDay(up),
                                      !.requests = c.st.requests,
                                      !.raised = c.st.raised, !.price = c.ret]
    /\ UNCHANGED <<bot, now>>

RunCost ==
    /\ last.phase = "called" /\ last.op = "calculate_session_cost"
    /\ \E upstream \in CostUpstreams :
          LET r == calculate_session_cost(Handler(price_cache), last.start_time,
                                          last.end_time, last.watt, last.fixed,
                                          last.region, upstream, now)
          IN  /\ price_cache' = r.st.cache
              /\ last' = [last EXCEPT !.phase = "returned", !.clock = now,
                                      !.upstream = upstream,
                                      !.requests = r.st.requests,
                                      !.raised = r.ret.raised, !.result = r.ret]
    /\ UNCHANGED <<bot, now>>

RunEstimate ==
    /\ last.phase = "called" /\ last.op = "estimate_current_cost"
    /\ \E upstream \in CostUpstreams :
          LET r == estimate_current_cost(Handler(price_cache), last.start_time,
                                         last.watt, last.fixed, last.region,
                                         upstream, now)
          IN  /\ price_cache' = r.st.cache
              /\ last' = [last EXCEPT !.phase = "returned", !.clock = now,
                                      !.end_time = now, !.upstream = upstream,
                                      !.requests = r.st.requests,
                                      !.raised = r.ret.raised, !.result = r.ret]
    /\ UNCHANGED <<bot, now>>

Return ==
    /\ last.phase = "returned"
    /\ last' = NoCall
    /\ UNCHANGED <<price_cache, bot, now>>

NextCore ==
    \/ Tick
    \/ CallFetch
    \/ CallCurrentPrice
    \/ CallCost
    \/ CallEstimate
    \/ RunFetch
    \/ RunCurrentPrice
    \/ RunCost
    \/ RunEstimate
    \/ Return

SpecCore == InitCore /\ [][NextCore]_vars

----------------------------------------------------------------------------
(* The cost engine over a flat curve: SpecFlat.  The upstream answers the  *)
(* same raw price, 0.968004 (1.21 when taxed), for every hour of every     *)
(* day; the appliance is the 750 W / 1500 W one of the help text and the   *)
(* session lasts at most the 2 hours of its example.                       *)

ExampleHours == 2
ExampleWatts == {calculate_watt(750, 1500, mode) : mode \in {"low", "high", "avg"}}
FlatUpstream == SameEveryDay(Http(200, FlatCurve))

CallFlatCost ==
    /\ last.phase = "idle"
    /\ \E start_time \in Times, length \in 1 .. ExampleHours * TicksPerHour,
          watt \in ExampleWatts, fixed \in FixedCosts :
          LET end_time == start_time + length IN
          /\ last' = [NoCall EXCEPT !.phase = "called", !.op = "calculate_session_cost",
                                      !.start_time = start_time, !.end_time = end_time,
                                      !.watt = watt, !.fixed = fixed]
    /\ UNCHANGED <<price_cache, bot, now>>

RunFlatCost ==
    /\ last.phase = "called" /\ last.op = "calculate_session_cost"
    /\ \E r \in {calculate_session_cost(Handler(price_cache), last.start_time,
                                         last.end_time, last.watt, last.fixed,
                                         last.region, FlatUpstream, now)} :
          /\ price_cache' = r.st.cache
          /\ last' = [last EXCEPT !.phase = "returned", !.clock = now,
                                  !.upstream = FlatUpstream,
                                  !.requests = r.st.requests,
                                  !.raised = r.ret.raised, !.result = r.ret]
    /\ UNCHANGED <<bot, now>>

NextFlat ==
    \/ Tick
    \/ CallFlatCost
    \/ RunFlatCost
    \/ Return

SpecFlat == InitCore /\ [][NextFlat]_vars

----------------------------------------------------------------------------
(* Repeated estimates of one open interval under prices that do not        *)
(* change: SpecEstimate.  Every day has the one curve RampCurve; a request *)
(* for a day either gets it or fails, so which days are available may      *)
(* differ from call to call.                                               *)

StableAnswers == {ConnError, Http(200, RampCurve)}
StableUpstreams == [Dates -> StableAnswers]

RunStableEstimate ==
    /\ last.phase = "called" /\ last.op = "estimate_current_cost"
    /\ \E upstream \in StableUpstreams :
       \E r \in {estimate_current_cost(Handler(price_cache), last.start_time,
                                        last.watt, last.fixed, last.region,
                                        upstream, now)} :
          /\ price_cache' = r.st.cache
          /\ last' = [last EXCEPT !.phase = "returned", !.clock = now,
                                  !.end_time = now, !.upstream = upstream,
                                  !.requests = r.st.requests,
                                  !.raised = r.ret.raised, !.result = r.ret]
    /\ UNCHANGED <<bot, now>>

(* time passes and the caller asks again for the same open interval *)
EstimateAgain ==
    /\ last.phase = "returned" /\ last.op = "estimate_current_cost"
    /\ \E t2 \in now .. ClockEnd, upstream \in StableUpstreams :
       \E r \in {estimate_current_cost(Handler(price_cache), last.start_time,
                                        last.watt, last.fixed, last.region,
                                        upstream, t2)} :
          /\ t2 - last.start_time <= MaxHours * TicksPerHour
          /\ now' = t2
          /\ price_cache' = r.st.cache
          /\ last' = [last EXCEPT !.clock = t2, !.end_time = t2,
                                  !.upstream = upstream,
                                  !.requests = r.st.requests,
                                  !.raised = r.ret.raised, !.result = r.ret]
    /\ UNCHANGED bot

NextEstimate ==
    \/ Tick
    \/ CallEstimate
    \/ RunStableEstimate
    \/ EstimateAgain
    \/ Return

SpecEstimate == InitCore /\ [][NextEstimate]_vars

----------------------------------------------------------------------------
(* bot/handlers.py: the handlers of the appliance and session commands and *)
(* of the inline-keyboard callbacks: Spec.  The application processes one  *)
(* update at a time (main.py builds it without concurrent updates), so a   *)
(* handler runs to completion.  A keyboard stays pressable until the       *)
(* message that carries it is edited.                                      *)

Users == {1}
(* the name typed in /add; /use and /delete type any of Names *)
AddNames == {"Heater"}
(* the two numbers typed after the name in /add *)
AddWatts == {<<0, 500>>, <<500, 1000>>, <<1000, 500>>}
Modes == {"low", "high", "avg"}
BotAnswers == {NotAList, Http(200, FlatCurve)}

Keyboard(user, kind, name, names) ==
    [user |-> user, kind |-> kind, name |-> name, names |-> names]
(* bot/keyboards.py *)
get_watt_mode_keyboard(user, apparat_name) == Keyboard(user, "watt", apparat_name, {})
get_appliance_keyboard(user, rows, action) ==
    Keyboard(user, action, "", {a.name : a \in rows})
get_session_action_keyboard(user) == Keyboard(user, "session", "", {})

Sent(kb) == keyboards (+) SetToBag({kb})
Edited(kb, markup) == (keyboards (-) SetToBag({kb})) (+) markup
NoMarkup == EmptyBag
Markup(kb) == SetToBag({kb})

Init ==
    /\ price_cache = {}
    /\ apparater = {}
    /\ sessions = {}
    /\ next_id = [apparater |-> 1, sessions |-> 1]
    /\ user_settings = {}
    /\ keyboards = EmptyBag
    /\ now = ClockStart
    /\ last = NoCall

ClockTick ==
    /\ now + TicksPerHour <= ClockStart + BotHours * TicksPerHour
    /\ now' = now + TicksPerHour
    /\ UNCHANGED <<price_cache, bot, last>>

cmd_add ==
    \E user \in Users, name \in AddNames, args \in AddWatts :
        LET low == args[1]
            high == args[2]
        IN
        /\ IF low <= 0 \/ high <= 0
           THEN UNCHANGED <<apparater, next_id>>
           ELSE LET low_watt == Min(low, high)
                    high_watt == Max(low, high)
                    r == add_apparat(apparater, next_id.apparater, user, name,
                                     low_watt, high_watt)
                IN  /\ r.ok => next_id.apparater <= MaxApparater
                    /\ apparater' = r.apparater
                    /\ next_id' = IF r.ok THEN [next_id EXCEPT !.apparater = @ + 1]
                                  ELSE next_id
        /\ UNCHANGED <<price_cache, sessions, user_settings, keyboards, now, last>>

cmd_delete ==
    \E user \in Users :
        /\ \/ \E name \in Names :
                 /\ apparater' = delete_apparat(apparater, user, name).apparater
                 /\ UNCHANGED keyboards
           \/ /\ get_all_apparater(apparater, user) # {}
              /\ keyboards' = Sent(get_appliance_keyboard(
                                      user, get_all_apparater(apparater, user), "delete"))
              /\ BagCardinality(keyboards') <= MaxKeyboards
              /\ UNCHANGED apparater
        /\ UNCHANGED <<price_cache, sessions, next_id, user_settings, now, last>>

(* the part of /use and of the appliance button that shows the watt modes: *)
(* settings are read (created), the current price is looked up, the        *)
(* keyboard goes out unless the lookup raised                              *)
ShowWattModes(user, name, markup_if_shown, markup_if_raised) ==
    \E up \in BotAnswers :
        LET g == get_user_settings(user_settings, user)
            c == get_current_price(Handler(price_cache), now, g.row.region,
                                   SameEveryDay(up))
        IN  /\ user_settings' = g.user_settings
            /\ price_cache' = c.st.cache
            /\ keyboards' = IF c.st.raised THEN markup_if_raised ELSE markup_if_shown
            /\ BagCardinality(keyboards') <= MaxKeyboards

cmd_use ==
    \E user \in Users :
        /\ IF get_active_session(sessions, apparater, user) # {}
           THEN UNCHANGED <<price_cache, user_settings, keyboards>>
           ELSE \/ /\ get_all_apparater(apparater, user) # {}
                   /\ keyboards' = Sent(get_appliance_keyboard(
                                      user, get_all_apparater(apparater, user), "use"))
                   /\ BagCardinality(keyboards') <= MaxKeyboards
                   /\ UNCHANGED <<price_cache, user_settings>>
                \/ \E name \in Names :
                      IF get_apparat(apparater, user, name) = {}
                      THEN UNCHANGED <<price_cache, user_settings, keyboards>>
                      ELSE ShowWattModes(user, name,
                                         Sent(get_watt_mode_keyboard(user, name)),
                                         keyboards)
        /\ UNCHANGED <<apparater, sessions, next_id, now, last>>

callback_appliance ==
    \E kb \in BagToSet(keyboards) :
        /\ kb.kind \in {"use", "delete"}
        /\ \/ /\ keyboards' = Edited(kb, NoMarkup)
              /\ UNCHANGED <<price_cache, apparater, user_settings>>
           \/ \E name \in kb.names :
                 IF kb.kind = "use"
                 THEN /\ IF get_apparat(apparater, kb.user, name) = {}
                         THEN /\ keyboards' = Edited(kb, NoMarkup)
                              /\ UNCHANGED <<price_cache, user_settings>>
                         ELSE ShowWattModes(kb.user, name,
                                  Edited(kb, Markup(get_watt_mode_keyboard(kb.user, name))),
                                  keyboards)
                      /\ UNCHANGED apparater
                 ELSE /\ apparater' = delete_apparat(apparater, kb.user, name).apparater
                      /\ keyboards' = Edited(kb, NoMarkup)
                      /\ UNCHANGED <<price_cache, user_settings>>
        /\ UNCHANGED <<sessions, next_id, now, last>>

callback_watt_mode ==
    \E kb \in BagToSet(keyboards) :
        /\ kb.kind = "watt"
        /\ \/ /\ keyboards' = Edited(kb, NoMarkup)
              /\ UNCHANGED <<price_cache, sessions, next_id, user_settings>>
           \/ \E mode \in Modes :
                 LET apparat == get_apparat(apparater, kb.user, kb.name)
                 IN  IF apparat = {}
                     THEN /\ keyboards' = Edited(kb, NoMarkup)
                          /\ UNCHANGED <<price_cache, sessions, next_id, user_settings>>
                     ELSE \E a \in apparat, up \in BotAnswers :
                          LET actual_watt == calculate_watt(a.low_watt, a.high_watt, mode)
                              g == get_user_settings(user_settings, kb.user)
                              c == get_current_price(Handler(price_cache), now,
                                                     g.row.region, SameEveryDay(up))
                          IN  /\ next_id.sessions <= MaxSessions
                              /\ sessions' = start_session(sessions, next_id.sessions,
                                                 kb.user, a.id, mode, actual_watt, now)
                              /\ next_id' = [next_id EXCEPT !.sessions = @ + 1]
                              /\ user_settings' = g.user_settings
                              /\ price_cache' = c.st.cache
                              /\ keyboards' =
                                    IF c.st.raised THEN keyboards
                                    ELSE Edited(kb, Markup(get_session_action_keyboard(kb.user)))
        /\ UNCHANGED <<apparater, now, last>>

(* the body shared by /stop and the Stop button: cost, then end_session;   *)
(* an exception in the cost calculation leaves the session as it was       *)
StopSession(user, row) ==
    \E up \in BotAnswers :
        LET g == get_user_settings(user_settings, user)
            s == row.session
            r == calculate_session_cost(Handler(price_cache), s.start_time, now,
                                        s.actual_watt, g.row.fixed_cost_nok,
                                        g.row.region, SameEveryDay(up), now)
        IN  /\ user_settings' = g.user_settings
            /\ price_cache' = r.st.cache
            /\ sessions' = IF r.ret.raised THEN sessions
                           ELSE end_session(sessions, s.id, r.ret.kwh, r.ret.spot_cost,
                                            r.ret.fixed_cost, r.ret.total_cost, now)
            /\ last' = [NoCall EXCEPT !.raised = r.ret.raised]

(* the body shared by /status and the Status button *)
ShowStatus(user, row) ==
    \E up \in BotAnswers :
        LET g == get_user_settings(user_settings, user)
            s == row.session
            r == estimate_current_cost(Handler(price_cache), s.start_time,
                                       s.actual_watt, g.row.fixed_cost_nok,
                                       g.row.region, SameEveryDay(up), now)
        IN  /\ user_settings' = g.user_settings
            /\ price_cache' = r.st.cache
            /\ last' = [NoCall EXCEPT !.raised = r.ret.raised]

cmd_stop ==
    \E user \in Users :
        /\ IF get_active_session(sessions, apparater, user) = {}
           THEN UNCHANGED <<price_cache, sessions, user_settings, last>>
           ELSE \E row \in get_active_session(sessions, apparater, user) :
                   StopSession(user, row)
        /\ UNCHANGED <<apparater, next_id, keyboards, now>>

cmd_cancel ==
    \E user \in Users :
        /\ IF get_active_session(sessions, apparater, user) = {}
           THEN UNCHANGED sessions
           ELSE \E row \in get_active_session(sessions, apparater, user) :
                   sessions' = cancel_session(sessions, row.session.id, now)
        /\ UNCHANGED <<price_cache, apparater, next_id, user_settings, keyboards, now, last>>

cmd_status ==
    \E user \in Users :
        /\ IF get_active_session(sessions, apparater, user) = {}
           THEN UNCHANGED <<price_cache, user_settings, last>>
           ELSE \E row \in get_active_session(sessions, apparater, user) :
                   ShowStatus(user, row)
        /\ UNCHANGED <<apparater, sessions, next_id, keyboards, now>>

callback_session ==
    \E kb \in BagToSet(keyboards) :
        /\ kb.kind = "session"
        /\ IF get_active_session(sessions, apparater, kb.user) = {}
           THEN /\ keyboards' = Edited(kb, NoMarkup)
                /\ UNCHANGED <<price_cache, sessions, user_settings, last>>
           ELSE \E row \in get_active_session(sessions, apparater, kb.user) :
                   \/ /\ StopSession(kb.user, row)
                      /\ keyboards' = IF last'.raised THEN keyboards
                                      ELSE Edited(kb, NoMarkup)
                   \/ /\ ShowStatus(kb.user, row)
                      /\ UNCHANGED <<sessions, keyboards>>
                   \/ /\ sessions' = cancel_session(sessions, row.session.id, now)
                      /\ keyboards' = Edited(kb, NoMarkup)
                      /\ UNCHANGED <<price_cache, user_settings, last>>
        /\ UNCHANGED <<apparater, next_id, now>>

Next ==
    \/ ClockTick
    \/ cmd_add
    \/ cmd_delete
    \/ cmd_use
    \/ callback_appliance
    \/ callback_watt_mode
    \/ cmd_stop
    \/ cmd_cancel
    \/ cmd_status
    \/ callback_session

Spec == Init /\ [][Next]_vars

----------------------------------------------------------------------------
(* The price fetcher in a taxed and in the exempt region: SpecTax.  The    *)
(* upstream fails or answers one of two curves, so that a later call may   *)
(* find a curve in the cache that the upstream no longer offers.  The      *)
(* fetcher does not read the clock, which stands still here.               *)

TaxRegions == {"NO1", "NO4"}
TaxCurves == {FlatCurve, RampCurve}
TaxAnswers == {ConnError} \cup {Http(200, curve) : curve \in TaxCurves}

CallTaxFetch ==
    /\ last.phase = "idle"
    /\ \E date \in Times, region \in TaxRegions :
          last' = [NoCall EXCEPT !.phase = "called", !.op = "fetch_daily_prices",
                                   !.date = date, !.region = region]
    /\ UNCHANGED <<price_cache, bot, now>>

RunTaxFetch ==
    /\ last.phase = "called" /\ last.op = "fetch_daily_prices"
    /\ \E up \in TaxAnswers :
       \E f \in {fetch_daily_prices(Handler(price_cache), last.date, last.region,
                                     SameEveryDay(up))} :
          /\ price_cache' = f.st.cache
          /\ last' = [last EXCEPT !.phase = "returned", !.clock = now,
                                  !.upstream = SameEveryDay(up),
                                  !.requests = f.st.requests,
                                  !.raised = f.st.raised, !.prices = f.ret]
    /\ UNCHANGED <<bot, now>>

NextTax ==
    \/ CallTaxFetch
    \/ RunTaxFetch
    \/ Return

SpecTax == InitCore /\ [][NextTax]_vars

----------------------------------------------------------------------------
(* The billing window of get_monthly_sessions for every month of a few     *)
(* years and every start day /set_periode accepts: SpecWindow.  /mnd hands *)
(* over the month and year the user types, so the years include the first  *)
(* and the last one a date can have and the ones next to them.             *)

Years == {MINYEAR - 1, MINYEAR, 2024, 2025, MAXYEAR, MAXYEAR + 1}
Months == 1 .. 12
StartDays == 1 .. 28

InitWindow ==
    /\ price_cache = {}
    /\ apparater = {}
    /\ sessions = {}
    /\ next_id = [apparater |-> 1, sessions |-> 1]
    /\ user_settings = {}
    /\ keyboards = EmptyBag
    /\ now = ClockStart
    /\ \E year \in Years, month \in Months, period_start_day \in StartDays :
          last = [NoCall EXCEPT !.phase = "called", !.op = "get_monthly_sessions",
                                !.user = 1, !.year = year, !.month = month,
                                !.period_start_day = period_start_day]

RunWindow ==
    /\ last.phase = "called" /\ last.op = "get_monthly_sessions"
    /\ \E r \in {get_monthly_sessions(sessions, apparater, last.user, last.year,
                                       last.month, last.period_start_day)} :
          last' = [last EXCEPT !.phase = "returned", !.raised = r.raised,
                               !.window = r.window, !.rows = r.rows]
    /\ UNCHANGED <<price_cache, bot, now>>

NextWindow == RunWindow

SpecWindow == InitWindow /\ [][NextWindow]_vars

----------------------------------------------------------------------------
(* The session table as the database operations leave it, and the billing  *)
(* period query over it: SpecPeriod.  Two users add and delete an          *)
(* appliance and start, end and cancel sessions while the clock runs from  *)
(* 23:00 on 2025-03-04 over midnight; the query is asked for March and     *)
(* April 2025 with start days that put that midnight on a window bound.    *)

PeriodUsers == {1, 2}
PeriodMonths == {<<2025, 3>>, <<2025, 4>>}
PeriodStartDays == {1, 5}
(* what end_session is handed by cmd_stop: 1 kWh at 1.00 + 1.00 *)
StoppedCost == [kwh |-> 10000, spot_cost |-> 100, fixed_cost |-> 100, total_cost |-> 200]

DbTick ==
    /\ last.phase = "idle"
    /\ now + TicksPerHour <= ClockEnd
    /\ now' = now + TicksPerHour
    /\ UNCHANGED <<price_cache, bot, last>>

AddBy(users, max) ==
    /\ last.phase = "idle"
    /\ next_id.apparater <= max
    /\ \E user \in users :
       \E r \in {add_apparat(apparater, next_id.apparater, user, "Heater", 750, 1500)} :
          /\ r.ok
          /\ apparater' = r.apparater
          /\ next_id' = [next_id EXCEPT !.apparater = @ + 1]
    /\ UNCHANGED <<price_cache, sessions, user_settings, keyboards, now, last>>

DeleteBy(users) ==
    /\ last.phase = "idle"
    /\ \E user \in users :
       \E r \in {delete_apparat(apparater, user, "Heater")} :
          /\ r.ok
          /\ apparater' = r.apparater
    /\ UNCHANGED <<price_cache, sessions, next_id, user_settings, keyboards, now, last>>

StartBy(users) ==
    /\ last.phase = "idle"
    /\ next_id.sessions <= MaxSessions
    /\ \E user \in users : \E a \in get_apparat(apparater, user, "Heater") :
          /\ get_active_session(sessions, apparater, user) = {}
          /\ sessions' = start_session(sessions, next_id.sessions, user, a.id, "avg",
                                       calculate_watt(a.low_watt, a.high_watt, "avg"), now)
          /\ next_id' = [next_id EXCEPT !.sessions = @ + 1]
    /\ UNCHANGED <<price_cache, apparater, user_settings, keyboards, now, last>>

EndBy(users, costs) ==
    /\ last.phase = "idle"
    /\ \E user \in users, cost \in costs :
       \E row \in get_active_session(sessions, apparater, user) :
          sessions' = end_session(sessions, row.session.id, cost.kwh, cost.spot_cost,
                                  cost.fixed_cost, cost.total_cost, now)
    /\ UNCHANGED <<price_cache, apparater, next_id, user_settings, keyboards, now, last>>

CancelBy(users) ==
    /\ last.phase = "idle"
    /\ \E user \in users : \E row \in get_active_session(sessions, apparater, user) :
          sessions' = cancel_session(sessions, row.session.id, now)
    /\ UNCHANGED <<price_cache, apparater, next_id, user_settings, keyboards, now, last>>

DbAdd == AddBy(PeriodUsers, MaxApparater + 1)
DbDelete == DeleteBy(PeriodUsers)
DbStart == StartBy(PeriodUsers)
DbEnd == EndBy(PeriodUsers, {StoppedCost})
DbCancel == CancelBy(PeriodUsers)

RunMonthly ==
    /\ last.phase = "idle"
    /\ \E user \in PeriodUsers, ym \in PeriodMonths, period_start_day \in PeriodStartDays :
       \E r \in {get_monthly_sessions(sessions, apparater, user, ym[1], ym[2],
                                       period_start_day)} :
          last' = [NoCall EXCEPT !.phase = "returned", !.op = "get_monthly_sessions",
                                   !.user = user, !.year = ym[1], !.month = ym[2],
                                   !.period_start_day = period_start_day,
                                   !.clock = now, !.raised = r.raised,
                                   !.window = r.window, !.rows = r.rows]
    /\ UNCHANGED <<price_cache, bot, now>>

NextPeriod ==
    \/ DbTick
    \/ DbAdd
    \/ DbDelete
    \/ DbStart
    \/ DbEnd
    \/ DbCancel
    \/ RunMonthly
    \/ Return

SpecPeriod == InitCore /\ [][NextPeriod]_vars

----------------------------------------------------------------------------
(* The period summary and the budget check of one user: SpecSummary.  The  *)
(* user stops sessions of 2.00, 7.99 and 8.00 kr, sets a budget of 10.00   *)
(* kr or none and a period start day of 1 or 5, and asks for the summary   *)
(* of the current month, of March and of April 2025.                       *)

StoppedCosts ==
    {[kwh |-> 3750, spot_cost |-> 100, fixed_cost |-> 100, total_cost |-> 200],
     [kwh |-> 41250, spot_cost |-> 399, fixed_cost |-> 400, total_cost |-> 799],
     [kwh |-> 40000, spot_cost |-> 400, fixed_cost |-> 400, total_cost |-> 800]}
Budgets == {NULL, 1000}
SummaryMonths == {<<NULL, NULL>>} \cup PeriodMonths

SumAdd == AddBy(Users, MaxApparater)
SumStart == StartBy(Users)
SumEnd == EndBy(Users, StoppedCosts)

(* /budget: a positive amount is stored, anything else clears the budget *)
cmd_budget ==
    /\ last.phase = "idle"
    /\ \E user \in Users, budget \in Budgets :
          user_settings' = update_user_setting(user_settings, user, "budget_nok", budget)
    /\ UNCHANGED <<price_cache, apparater, sessions, next_id, keyboards, now, last>>

cmd_set_periode ==
    /\ last.phase = "idle"
    /\ \E user \in Users, day \in PeriodStartDays :
          user_settings' = update_user_setting(user_settings, user, "period_start_day", day)
    /\ UNCHANGED <<price_cache, apparater, sessions, next_id, keyboards, now, last>>

RunSummary ==
    /\ last.phase = "idle"
    /\ \E user \in Users, ym \in SummaryMonths :
       \E r \in {get_monthly_summary(sessions, apparater, user_settings, user,
                                      ym[1], ym[2], now)} :
          /\ user_settings' = r.user_settings
          /\ last' = [NoCall EXCEPT !.phase = "returned", !.op = "get_monthly_summary",
                                   !.user = user, !.year = YearOr(ym[1], now),
                                   !.month = MonthOr(ym[2], now), !.clock = now,
                                   !.raised = r.ret.raised, !.summary = r.ret]
    /\ UNCHANGED <<price_cache, apparater, sessions, next_id, keyboards, now>>

RunBudgetAlert ==
    /\ last.phase = "idle"
    /\ \E user \in Users :
       \E r \in {check_budget_alert(sessions, apparater, user_settings, user, now)} :
          /\ user_settings' = r.user_settings
          /\ last' = [NoCall EXCEPT !.phase = "returned", !.op = "check_budget_alert",
                                   !.user = user, !.clock = now,
                                   !.year = Today(now).year, !.month = Today(now).month,
                                   !.raised = r.ret.raised, !.alert = r.ret.alert]
    /\ UNCHANGED <<price_cache, apparater, sessions, next_id, keyboards, now>>

NextSummary ==
    \/ DbTick
    \/ SumAdd
    \/ SumStart
    \/ SumEnd
    \/ cmd_budget
    \/ cmd_set_periode
    \/ RunSummary
    \/ RunBudgetAlert
    \/ Return

SpecSummary == InitCore /\ [][NextSummary]_vars

----------------------------------------------------------------------------
(* The runtime and max-duration checks of one user: SpecAlerts.  The user  *)
(* adds and deletes the appliance, starts, stops and cancels sessions      *)
(* while the clock runs for two hours, and the auto-stop limit is 0 (off), *)
(* 1 or 2 hours.  The mode button starts a session without looking for an  *)
(* active one (C1), so a second session may start beside the first.        *)

MaxDurations == {0, 1, 2}

AlertAdd == AddBy(Users, MaxApparater + 1)
AlertDelete == DeleteBy(Users)
AlertEnd == EndBy(Users, {StoppedCost})
AlertCancel == CancelBy(Users)

(* callback_watt_mode: start_session for the appliance of the keyboard *)
AlertStart ==
    /\ last.phase = "idle"
    /\ next_id.sessions <= MaxSessions
    /\ \E user \in Users : \E a \in get_apparat(apparater, user, "Heater") :
          /\ sessions' = start_session(sessions, next_id.sessions, user, a.id, "avg",
                                       calculate_watt(a.low_watt, a.high_watt, "avg"), now)
          /\ next_id' = [next_id EXCEPT !.sessions = @ + 1]
    /\ UNCHANGED <<price_cache, apparater, user_settings, keyboards, now, last>>

SetMaxDuration ==
    /\ last.phase = "idle"
    /\ \E user \in Users, hours \in MaxDurations :
          user_settings' = update_user_setting(user_settings, user,
                                               "max_duration_hours", hours)
    /\ UNCHANGED <<price_cache, apparater, sessions, next_id, keyboards, now, last>>

RunRuntimeAlert ==
    /\ last.phase = "idle"
    /\ \E user \in Users :
       \E alert \in check_runtime_alert(sessions, apparater, user, now) :
          last' = [NoCall EXCEPT !.phase = "returned", !.op = "check_runtime_alert",
                                   !.user = user, !.clock = now, !.alert = alert]
    /\ UNCHANGED <<price_cache, bot, now>>

RunMaxDuration ==
    /\ last.phase = "idle"
    /\ \E user \in Users :
       \E r \in {check_max_duration(sessions, apparater, user_settings, user, now)} :
       \E alert \in r.alerts :
          /\ user_settings' = r.user_settings
          /\ last' = [NoCall EXCEPT !.phase = "returned", !.op = "check_max_duration",
                                   !.user = user, !.clock = now, !.alert = alert]
    /\ UNCHANGED <<price_cache, apparater, sessions, next_id, keyboards, now>>

NextAlerts ==
    \/ Tick
    \/ AlertAdd
    \/ AlertDelete
    \/ AlertStart
    \/ AlertEnd
    \/ AlertCancel
    \/ SetMaxDuration
    \/ RunRuntimeAlert
    \/ RunMaxDuration
    \/ Return

SpecAlerts == InitCore /\ [][NextAlerts]_vars

----------------------------------------------------------------------------
(* calculate_watt applied to every pair of power settings and every mode:  *)
(* SpecWatt.  The settings are the small integers of either sign and the   *)
(* ones of tests/test_calculator.py.                                       *)

WattSettings == (-MaxWatt .. MaxWatt) \cup {100, 201, 750, 1000, 1500}

InitWatt ==
    /\ price_cache = {}
    /\ apparater = {}
    /\ sessions = {}
    /\ next_id = [apparater |-> 1, sessions |-> 1]
    /\ user_settings = {}
    /\ keyboards = EmptyBag
    /\ now = ClockStart
    /\ \E low_watt \in WattSettings, high_watt \in WattSettings, mode \in Modes :
          last = [NoCall EXCEPT !.phase = "called", !.op = "calculate_watt",
                                !.low_watt = low_watt, !.high_watt = high_watt,
                                !.mode = mode]

RunWatt ==
    /\ last.phase = "called" /\ last.op = "calculate_watt"
    /\ last' = [last EXCEPT !.phase = "returned",
                            !.watt = calculate_watt(last.low_watt, last.high_watt,
                                                    last.mode)]
    /\ UNCHANGED <<price_cache, bot, now>>

NextWatt == RunWatt

SpecWatt == InitWatt /\ [][NextWatt]_vars

----------------------------------------------------------------------------
(* Two fetch_daily_prices coroutines and a reader of the cache: SpecRace.  *)
(* A coroutine reads the cache, and on a miss awaits the HTTP response     *)
(* (price_api.py:54-60); other coroutines run while it waits.  When it     *)
(* resumes it parses the response and cache_prices writes the rows in one  *)
(* transaction.  The upstream answers a request with the full ramp, with   *)
(* the flat curve short of its last hour, with an empty list or not at all.*)

RaceAnswers == {ConnError, Http(200, RampCurve), Http(200, PartialCurve), Http(200, <<>>)}

RaceBegin ==
    \E t \in Fetchers, date \in Times, region \in {"NO1"} :
       \E cached \in {get_cached_prices(price_cache, DateStr(date), region)} :
          /\ last.fetchers[t].pc = "idle"
          /\ last' = [last EXCEPT !.fetchers[t] =
                         [pc |-> IF RegionRejected(region) \/ CacheHit(cached)
                                 THEN "done" ELSE "awaiting",
                          date |-> DateStr(date), region |-> region,
                          wrote |-> NoPrices]]
          /\ UNCHANGED <<price_cache, bot, now>>

RaceFinish ==
    \E t \in Fetchers, up \in RaceAnswers :
       \E r \in {FetchResume(price_cache, last.fetchers[t].date,
                             last.fetchers[t].region, up)} :
          /\ last.fetchers[t].pc = "awaiting"
          /\ price_cache' = r.cache
          /\ last' = [last EXCEPT !.fetchers[t].pc = "done",
                                  !.fetchers[t].wrote = r.wrote]
          /\ UNCHANGED <<bot, now>>

(* a reader: get_cached_prices for a key *)
RaceRead ==
    /\ \E date \in Times, region \in {"NO1"} :
          last' = [last EXCEPT !.phase = "returned", !.op = "get_cached_prices",
                               !.date = date, !.region = region,
                               !.prices = get_cached_prices(price_cache, DateStr(date),
                                                            region)]
    /\ UNCHANGED <<price_cache, bot, now>>

NextRace ==
    \/ RaceBegin
    \/ RaceFinish
    \/ RaceRead

SpecRace == InitCore /\ [][NextRace]_vars

----------------------------------------------------------------------------
(* The appliance table under add, lookup and delete by two users:          *)
(* SpecNames.  The names are a name and its other casing, once with ASCII  *)
(* letters only and once beginning with a letter outside ASCII; COLLATE    *)
(* NOCASE folds the 26 ASCII letters and no others.                        *)

TypedNames == {"Heater", "heater", "Ørn", "ørn"}
TypedWatts == {<<750, 1500>>, <<500, 1000>>}
NameUsers == {1, 2}

NameAdd ==
    /\ last.phase = "idle"
    /\ \E user \in NameUsers, name \in TypedNames, watts \in TypedWatts :
       \E r \in {add_apparat(apparater, next_id.apparater, user, name,
                             watts[1], watts[2])} :
          /\ r.ok => next_id.apparater <= MaxApparater + 2
          /\ apparater' = r.apparater
          /\ next_id' = IF r.ok THEN [next_id EXCEPT !.apparater = @ + 1] ELSE next_id
          /\ last' = [NoCall EXCEPT !.phase = "returned", !.op = "add_apparat",
                                   !.user = user, !.name = name, !.ok = r.ok]
    /\ UNCHANGED <<price_cache, sessions, user_settings, keyboards, now>>

NameGet ==
    /\ last.phase = "idle"
    /\ \E user \in NameUsers, name \in TypedNames :
          last' = [NoCall EXCEPT !.phase = "returned", !.op = "get_apparat",
                                   !.user = user, !.name = name,
                                   !.rows = get_apparat(apparater, user, name)]
    /\ UNCHANGED <<price_cache, bot, now>>

NameDelete ==
    /\ last.phase = "idle"
    /\ \E user \in NameUsers, name \in TypedNames :
       \E r \in {delete_apparat(apparater, user, name)} :
          /\ apparater' = r.apparater
          /\ last' = [NoCall EXCEPT !.phase = "returned", !.op = "delete_apparat",
                                   !.user = user, !.name = name, !.ok = r.ok]
    /\ UNCHANGED <<price_cache, sessions, next_id, user_settings, keyboards, now>>

NextNames ==
    \/ NameAdd
    \/ NameGet
    \/ NameDelete
    \/ Return

SpecNames == InitCore /\ [][NextNames]_vars

----------------------------------------------------------------------------
(* The session operations of the database called one after the other for   *)
(* one user: SpecSessions.  start_session is given an appliance of the     *)
(* user, its return value is the session id, and end_session and           *)
(* cancel_session are given the id of a session that has not ended.        *)

SessAdd == AddBy(Users, MaxApparater)

SessStart ==
    /\ last.phase = "idle"
    /\ next_id.sessions <= MaxSessions
    /\ \E user \in Users, mode \in Modes :
       \E a \in get_apparat(apparater, user, "Heater") :
       \E watt \in {calculate_watt(a.low_watt, a.high_watt, mode)} :
          /\ sessions' = start_session(sessions, next_id.sessions, user, a.id, mode,
                                       watt, now)
          /\ next_id' = [next_id EXCEPT !.sessions = @ + 1]
          /\ last' = [NoCall EXCEPT !.phase = "returned", !.op = "start_session",
                                   !.user = user, !.name = a.name, !.mode = mode,
                                   !.watt = watt, !.session_id = next_id.sessions]
    /\ UNCHANGED <<price_cache, apparater, user_settings, keyboards, now>>

SessEnd ==
    /\ last.phase = "idle"
    /\ \E s \in {x \in sessions : x.end_time = NULL} :
          /\ sessions' = end_session(sessions, s.id, StoppedCost.kwh,
                                     StoppedCost.spot_cost, StoppedCost.fixed_cost,
                                     StoppedCost.total_cost, now)
          /\ last' = [NoCall EXCEPT !.phase = "returned", !.op = "end_session",
                                   !.user = s.user_id, !.session_id = s.id]
    /\ UNCHANGED <<price_cache, apparater, next_id, user_settings, keyboards, now>>

SessCancel ==
    /\ last.phase = "idle"
    /\ \E s \in {x \in sessions : x.end_time = NULL} :
          /\ sessions' = cancel_session(sessions, s.id, now)
          /\ last' = [NoCall EXCEPT !.phase = "returned", !.op = "cancel_session",
                                   !.user = s.user_id, !.session_id = s.id]
    /\ UNCHANGED <<price_cache, apparater, next_id, user_settings, keyboards, now>>

NextSessions ==
    \/ DbTick
    \/ SessAdd
    \/ SessStart
    \/ SessEnd
    \/ SessCancel
    \/ Return

SpecSessions == InitCore /\ [][NextSessions]_vars

----------------------------------------------------------------------------
(* The settings table under get_user_settings and update_user_setting of   *)
(* two users: SpecSettings.  The keywords are those of the tests (fixed    *)
(* cost and region together, the budget), the period start day with a      *)
(* keyword that names no column, the auto-stop limit, and a keyword that   *)
(* names no column alone.                                                  *)

TypedKwargs ==
    {[fixed_cost_nok |-> 200, region |-> "NO5"],
     [budget_nok |-> 20000],
     [period_start_day |-> 5, created_at |-> 0],
     [max_duration_hours |-> 2],
     [created_at |-> 0]}

SettingsGet ==
    /\ last.phase = "idle"
    /\ \E user \in NameUsers :
       \E g \in {get_user_settings(user_settings, user)} :
          /\ user_settings' = g.user_settings
          /\ last' = [NoCall EXCEPT !.phase = "returned", !.op = "get_user_settings",
                                   !.user = user, !.settings = g.row]
    /\ UNCHANGED <<price_cache, apparater, sessions, next_id, keyboards, now>>

SettingsUpdate ==
    /\ last.phase = "idle"
    /\ \E user \in NameUsers, kwargs \in TypedKwargs :
          /\ user_settings' = UpdateUserSetting(user_settings, user, kwargs)
          /\ last' = [NoCall EXCEPT !.phase = "returned", !.op = "update_user_setting",
                                   !.user = user, !.kwargs = kwargs]
    /\ UNCHANGED <<price_cache, apparater, sessions, next_id, keyboards, now>>

NextSettings ==
    \/ SettingsGet
    \/ SettingsUpdate
    \/ Return

SpecSettings == InitCore /\ [][NextSettings]_vars

----------------------------------------------------------------------------
(* Two users working on their appliances, sessions and settings and        *)
(* clearing their history: SpecIsolation.  Every operation is a handler's: *)
(* the appliance of a session is one get_apparat returned for the user,    *)
(* the session ended or cancelled is the one get_active_session returned   *)
(* for the user, and the Clear button clears all of the user's sessions.   *)

IsoKwargs == {[period_start_day |-> 5]}

ClearBy(users) ==
    /\ last.phase = "idle"
    /\ \E user \in users :
       \E r \in {clear_sessions(sessions, user, NULL, NULL)} :
          sessions' = r.sessions
    /\ UNCHANGED <<price_cache, apparater, next_id, user_settings, keyboards, now, last>>

UpdateBy(users) ==
    /\ last.phase = "idle"
    /\ \E user \in users, kwargs \in IsoKwargs :
          user_settings' = UpdateUserSetting(user_settings, user, kwargs)
    /\ UNCHANGED <<price_cache, apparater, sessions, next_id, keyboards, now, last>>

SettingsBy(users) ==
    /\ last.phase = "idle"
    /\ \E user \in users :
          user_settings' = get_user_settings(user_settings, user).user_settings
    /\ UNCHANGED <<price_cache, apparater, sessions, next_id, keyboards, now, last>>

(* the operations of the users in a set *)
OperationBy(users) ==
    \/ AddBy(users, MaxApparater + 1)
    \/ DeleteBy(users)
    \/ StartBy(users)
    \/ EndBy(users, {StoppedCost})
    \/ CancelBy(users)
    \/ ClearBy(users)
    \/ UpdateBy(users)
    \/ SettingsBy(users)

IsoAdd == AddBy(NameUsers, MaxApparater + 1)
IsoDelete == DeleteBy(NameUsers)
IsoStart == StartBy(NameUsers)
IsoEnd == EndBy(NameUsers, {StoppedCost})
IsoCancel == CancelBy(NameUsers)
IsoClear == ClearBy(NameUsers)
IsoUpdate == UpdateBy(NameUsers)
IsoSettings == SettingsBy(NameUsers)

NextIsolation ==
    \/ DbTick
    \/ IsoAdd
    \/ IsoDelete
    \/ IsoStart
    \/ IsoEnd
    \/ IsoCancel
    \/ IsoClear
    \/ IsoUpdate
    \/ IsoSettings

SpecIsolation == InitCore /\ [][NextIsolation]_vars

----------------------------------------------------------------------------
(* The end of /stop: SpecStop.  One user with a budget of 10.00 kr or none *)
(* and a period start day of 1 or 5 stops sessions while the clock runs    *)
(* from 23:00 on 2025-03-04 over midnight.  cmd_stop saves the session,    *)
(* asks for the summary of the month of the clock and then for the budget  *)
(* alert (handlers.py:324-362); the cost it saves is one of StoppedCosts.  *)

StopTail(user, row, cost) ==
    \E ended \in {end_session(sessions, row.session.id, cost.kwh, cost.spot_cost, cost.fixed_cost, cost.total_cost, now)} :
    \E s \in {get_monthly_summary(ended, apparater, user_settings, user, Today(now).year, Today(now).month, now)} :
    \E a \in {check_budget_alert(ended, apparater, s.user_settings, user, now)} :
    \E g \in {get_user_settings(user_settings, user)} :
       /\ sessions' = ended
       /\ user_settings' = a.user_settings
       /\ last' = [NoCall EXCEPT
                     !.phase = "returned", !.op = "cmd_stop", !.user = user,
                     !.session_id = row.session.id, !.clock = now,
                     !.year = Today(now).year, !.month = Today(now).month,
                     !.period_start_day = g.row.period_start_day,
                     !.window = PeriodWindow(Today(now).year, Today(now).month,
                                             g.row.period_start_day),
                     !.rows = get_monthly_sessions(ended, apparater, user,
                                 Today(now).year, Today(now).month,
                                 g.row.period_start_day).rows,
                     !.raised = s.ret.raised, !.summary = s.ret, !.alert = a.ret.alert]

StopWithSummary ==
    /\ last.phase = "idle"
    /\ \E user \in Users, cost \in StoppedCosts :
       \E row \in get_active_session(sessions, apparater, user) :
          StopTail(user, row, cost)
    /\ UNCHANGED <<price_cache, apparater, next_id, keyboards, now>>

NextStop ==
    \/ DbTick
    \/ SumAdd
    \/ SumStart
    \/ cmd_budget
    \/ cmd_set_periode
    \/ StopWithSummary
    \/ Return

SpecStop == InitCore /\ [][NextStop]_vars

----------------------------------------------------------------------------
(* /clear and its confirmation: SpecClear.  One user adds and deletes the  *)
(* appliance and starts, ends and cancels sessions; /clear announces the   *)
(* sessions of get_session_history and shows the Confirm and Cancel        *)
(* buttons, and the next update is the press of one of them, so that the   *)
(* sessions are at the confirmation what they were at the prompt.          *)

ClearAdd == AddBy(Users, MaxApparater + 1)
ClearDelete == DeleteBy(Users)
ClearStart == StartBy(Users)
ClearEnd == EndBy(Users, {StoppedCost})
ClearCancel == CancelBy(Users)

cmd_clear ==
    /\ last.phase = "idle"
    /\ \E user \in Users :
       \E history \in {get_session_history(sessions, apparater, user)} :
          /\ history # {}
          /\ last' = [NoCall EXCEPT !.phase = "prompted", !.op = "cmd_clear",
                                   !.user = user, !.rows = history]
    /\ UNCHANGED <<price_cache, bot, now>>

callback_clear ==
    /\ last.phase = "prompted" /\ last.op = "cmd_clear"
    /\ \/ /\ last' = NoCall
          /\ UNCHANGED sessions
       \/ \E r \in {clear_sessions(sessions, last.user, NULL, NULL)} :
             /\ sessions' = r.sessions
             /\ last' = [last EXCEPT !.phase = "returned", !.op = "callback_clear",
                                     !.deleted = sessions \ r.sessions]
    /\ UNCHANGED <<price_cache, apparater, next_id, user_settings, keyboards, now>>

NextClear ==
    \/ DbTick
    \/ ClearAdd
    \/ ClearDelete
    \/ ClearStart
    \/ ClearEnd
    \/ ClearCancel
    \/ cmd_clear
    \/ callback_clear
    \/ Return

SpecClear == InitCore /\ [][NextClear]_vars

----------------------------------------------------------------------------
(* /set_region and the region buttons: SpecRegion.  Two users type         *)
(* /set_region with a region in either case or with something else, and    *)
(* send callback queries whose data starts with "region:", the pattern the *)
(* handler is registered for; the data is the client's, so it need not be  *)
(* that of a button of get_region_keyboard.                                *)

TypedRegions == {"NO2", "no4", "XX", "xx"}
(* query.data.split(":") *)
RegionPayloads == {<<"region", "NO3">>, <<"region", "NO5">>, <<"region", "XX">>, <<"region", "no4">>, <<"region", "">>, <<"region", "NO1", "">>}

(* str.upper() *)
upper(region) ==
    CASE region = "no4" -> "NO4"
      [] region = "xx" -> "XX"
      [] OTHER -> region

cmd_set_region ==
    /\ last.phase = "idle"
    /\ \/ \E user \in NameUsers : \E g \in {get_user_settings(user_settings, user)} :
             /\ user_settings' = g.user_settings
             /\ last' = [NoCall EXCEPT !.phase = "returned", !.op = "cmd_set_region",
                                      !.user = user, !.name = g.row.region]
       \/ \E user \in NameUsers, arg \in TypedRegions :
          /\ user_settings' =
                IF upper(arg) \notin VALID_REGIONS THEN user_settings
                ELSE UpdateUserSetting(user_settings, user, [region |-> upper(arg)])
          /\ last' = [NoCall EXCEPT !.phase = "returned", !.op = "cmd_set_region",
                                   !.user = user, !.name = arg,
                                   !.ok = upper(arg) \in VALID_REGIONS]
    /\ UNCHANGED <<price_cache, apparater, sessions, next_id, keyboards, now>>

callback_region ==
    /\ last.phase = "idle"
    /\ \E user \in NameUsers, data \in RegionPayloads :
          /\ user_settings' =
                IF Len(data) # 2 \/ data[1] # "region" THEN user_settings
                ELSE UpdateUserSetting(user_settings, user, [region |-> data[2]])
          /\ last' = [NoCall EXCEPT !.phase = "returned", !.op = "callback_region",
                                   !.user = user, !.name = data[Len(data)],
                                   !.kwargs = data,
                                   !.ok = (Len(data) = 2 /\ data[1] = "region")]
    /\ UNCHANGED <<price_cache, apparater, sessions, next_id, keyboards, now>>

NextRegion ==
    \/ cmd_set_region
    \/ callback_region
    \/ Return

SpecRegion == InitCore /\ [][NextRegion]_vars

----------------------------------------------------------------------------
(* Vocabulary of the properties *)

Returned(op) == last.phase = "returned" /\ last.op = op
Returning(op) == last.phase = "called" /\ last.op = op /\ last'.phase = "returned"
CostOps == {"calculate_session_cost", "estimate_current_cost"}
ReturnedCost == last.phase = "returned" /\ last.op \in CostOps

(* the curve stored under (date, region), as a set of (hour, price) pairs *)
Stored(cache, date, region) ==
    {<<r.hour, r.price_nok>> : r \in {x \in cache : x.date = date /\ x.region = region}}
Pairs(prices) == {<<h, prices[h]>> : h \in DOMAIN prices}

(* the hour buckets an interval touches, their overlap with it in ticks,   *)
(* and the price the cache holds for a bucket                              *)
Buckets(start_time, end_time) ==
    {t \in (ClockStart - TicksPerHour) .. ClockEnd :
        t % TicksPerHour = 0 /\ t < end_time /\ t + TicksPerHour > start_time}
Overlap(t, start_time, end_time) ==
    Min(t + TicksPerHour, end_time) - Max(t, start_time)
HasPrice(cache, t, region) ==
    \E r \in cache : r.date = DateStr(t) /\ r.region = region /\ r.hour = HourOf(t)
PriceOf(cache, t, region) ==
    (CHOOSE r \in cache :
        r.date = DateStr(t) /\ r.region = region /\ r.hour = HourOf(t)).price_nok

RECURSIVE Sum(_, _, _)
Sum(S, F(_), acc) ==
    IF S = {} THEN acc
    ELSE LET x == CHOOSE y \in S : TRUE
         IN  Sum(S \ {x}, F, acc + F(x))

----------------------------------------------------------------------------
(* C1: every user has at most one active session, that is at most one      *)
(* session row with end_time absent and cancelled = FALSE.                 *)
ActiveRows(user) ==
    {s \in sessions : s.user_id = user /\ s.end_time = NULL /\ ~s.cancelled}

C1_AtMostOneActiveSession ==
    \A user \in Users : Cardinality(ActiveRows(user)) <= 1

----------------------------------------------------------------------------
(* C2: once a curve is cached for (date, region) it never changes, the     *)
(* fetch that stored it returned exactly the stored curve, and every later *)
(* fetch_daily_prices for that key returns the stored curve without an     *)
(* upstream request, whatever the upstream would answer.                   *)
C2_CachedCurveIsServedUnchanged ==
    [][ /\ \A d \in Dates, r \in VALID_REGIONS :
             Stored(price_cache, d, r) # {} =>
                /\ Stored(price_cache', d, r) = Stored(price_cache, d, r)
                /\ (Returning("fetch_daily_prices") /\ DateStr(last.date) = d
                      /\ last.region = r) =>
                        /\ ~last'.raised
                        /\ ~last'.prices.none
                        /\ Pairs(last'.prices.prices) = Stored(price_cache, d, r)
                        /\ last'.requests = NoRequests
        /\ (Returning("fetch_daily_prices") /\ ~last'.raised /\ ~Falsy(last'.prices)) =>
              Pairs(last'.prices.prices)
                 = Stored(price_cache', DateStr(last.date), last.region)
      ]_vars

(* a fetch answered from the cache while the upstream would have answered  *)
(* another curve                                                           *)
C2_Witness ==
    /\ Returned("fetch_daily_prices")
    /\ last.requests = NoRequests
    /\ ~last.prices.none
    /\ last.upstream[DateStr(last.date)] = Http(200, RampCurve)
    /\ Pairs(last.prices.prices) = Pairs(ParsePrices(PartialCurve, last.region))

(* C3: one cost calculation issues at most one upstream request per        *)
(* (date, region), also when the fetch fails.                              *)
C3_SingleAttemptPerDate ==
    ReturnedCost => \A d \in Dates : last.requests[d] <= 1

(* C4: a cost calculation over a non-degenerate interval in which no hour  *)
(* bucket got a price does not raise and prices the whole interval at the  *)
(* current-hour price, or at the emergency price when there is none.       *)
C4_FallbackNeverRaises ==
    (ReturnedCost /\ last.end_time > last.start_time /\ last.region \in VALID_REGIONS
       /\ last.result.priced = 0) =>
        /\ ~last.raised
        /\ LET price == IF HasPrice(price_cache, last.clock, last.region)
                        THEN PriceOf(price_cache, last.clock, last.region)
                        ELSE EmergencyPrice
               energy == (last.end_time - last.start_time) * last.watt
           IN  /\ last.result.kwh = RoundKwh(energy)
               /\ last.result.spot_cost = RoundSpot(energy * price)

(* C5: a fetch whose upstream request fails or is answered by a malformed  *)
(* body returns None and does not raise.                                   *)
C5_BadUpstreamIsPriceUnavailable ==
    (Returned("fetch_daily_prices") /\ last.requests # NoRequests
       /\ last.upstream[DateStr(last.date)] \in FailedAnswers \cup MalformedAnswers) =>
        /\ ~last.raised
        /\ last.prices.none

(* C6: fetch_daily_prices for a region outside the fixed set returns None  *)
(* and leaves the cache and the number of upstream requests unchanged.     *)
C6_InvalidRegionTouchesNothing ==
    [][ (Returning("fetch_daily_prices") /\ last.region \notin VALID_REGIONS) =>
            /\ price_cache' = price_cache
            /\ last'.requests = NoRequests
            /\ last'.prices.none
            /\ ~last'.raised
      ]_vars

(* an invalid region was asked for while the cache held curves and the     *)
(* upstream would have answered a curve                                    *)
C6_Witness ==
    /\ Returned("fetch_daily_prices")
    /\ last.region \notin VALID_REGIONS
    /\ last.upstream[DateStr(last.date)] = Http(200, RampCurve)
    /\ price_cache # {}

(* C7: a cost calculation for a region outside the fixed set fails; it     *)
(* returns no priced result.                                               *)
C7_InvalidRegionIsHardFailure ==
    (ReturnedCost /\ last.end_time > last.start_time
       /\ last.region \notin VALID_REGIONS) => last.raised

(* C8: for end <= start the cost calculation returns the all-zero result   *)
(* with an empty breakdown, issues no upstream request and leaves the      *)
(* cache alone.                                                            *)
C8_DegenerateIntervalIsZero ==
    [][ (last.phase = "called" /\ last.op \in CostOps /\ last'.phase = "returned"
           /\ last'.end_time <= last'.start_time) =>
            /\ ~last'.raised
            /\ last'.result.hours = 0 /\ last'.result.kwh = 0
            /\ last'.result.spot_cost = 0 /\ last'.result.fixed_cost = 0
            /\ last'.result.total_cost = 0 /\ last'.result.avg_spot_price = 0
            /\ last'.result.hourly_breakdown = <<>>
            /\ last'.requests = NoRequests
            /\ price_cache' = price_cache
      ]_vars

(* an empty interval that does not start on the hour, with nothing cached  *)
C8_Witness ==
    /\ ReturnedCost
    /\ last.end_time = last.start_time
    /\ last.start_time % TicksPerHour # 0
    /\ last.region \in VALID_REGIONS
    /\ price_cache = {}

(* C9: on the hour-by-hour path the energy is that of the whole interval,  *)
(* whichever hours have a price.                                           *)
C9_EnergyCoversWholeInterval ==
    (ReturnedCost /\ ~last.raised /\ last.end_time > last.start_time
       /\ last.result.priced > 0) =>
        last.result.energy_num = (last.end_time - last.start_time) * last.watt

----------------------------------------------------------------------------
----------------------------------------------------------------------------
(* C12: of two estimates of the same open interval at times t1 <= t2,      *)
(* under prices that do not change, the later one reports at least the     *)
(* energy, the spot cost and the total cost of the earlier one.            *)
C12_EstimateNeverDecreases ==
    [][ (/\ last.phase = "returned" /\ last'.phase = "returned"
         /\ last.op = "estimate_current_cost" /\ last'.op = "estimate_current_cost"
         /\ ~last.raised /\ ~last'.raised
         /\ last'.start_time = last.start_time /\ last'.end_time >= last.end_time) =>
            /\ last'.result.kwh >= last.result.kwh
            /\ last'.result.spot_cost >= last.result.spot_cost
            /\ last'.result.total_cost >= last.result.total_cost
      ]_vars

----------------------------------------------------------------------------
(* C13: for all integer settings, mode "low" gives the low setting, mode   *)
(* "high" the high one and mode "avg" the floor of their mean; with equal  *)
(* settings all three modes give that setting.                             *)
C13_WattModes ==
    Returned("calculate_watt") =>
        /\ last.mode = "low" => last.watt = last.low_watt
        /\ last.mode = "high" => last.watt = last.high_watt
        /\ last.mode = "avg" =>
              /\ 2 * last.watt <= last.low_watt + last.high_watt
              /\ last.low_watt + last.high_watt < 2 * last.watt + 2
        /\ last.low_watt = last.high_watt => last.watt = last.low_watt

(* the odd mean of the tests, 100 and 201 averaged to 150 *)
C13_Witness ==
    /\ Returned("calculate_watt") /\ last.mode = "avg"
    /\ last.low_watt = 100 /\ last.high_watt = 201 /\ last.watt = 150

(* an odd negative sum: -3 and 2 average to -1, the floor of -0.5 *)
C13_WitnessNegative ==
    /\ Returned("calculate_watt") /\ last.mode = "avg"
    /\ last.low_watt = -3 /\ last.high_watt = 2 /\ last.watt = -1

----------------------------------------------------------------------------
(* C14: every price fetch_daily_prices returns is the raw price of its     *)
(* hour taxed once, round(raw x 1.25, 5) in NO1, NO2, NO3 and NO5 and      *)
(* round(raw, 5) in NO4: a fresh answer taxes the curve the upstream just  *)
(* gave, a cache hit serves a curve that was taxed when it was stored and  *)
(* is not taxed again.                                                     *)
TaxedOnce(raw, region) ==
    IF region = "NO4" THEN RoundHalfEven(raw, 10) ELSE RoundHalfEven(raw * 125, 1000)

IsTaxedOnce(price, hour, region, curve) ==
    \E i \in DOMAIN curve :
        curve[i].time_start = hour /\ price = TaxedOnce(curve[i].NOK_per_kWh, region)

C14_TaxAppliedOnce ==
    (Returned("fetch_daily_prices") /\ ~last.prices.none) =>
        /\ \A region \in VALID_REGIONS, curve \in TaxCurves : \A i \in DOMAIN curve :
              PriceWithMva(curve[i].NOK_per_kWh, region) =
                 TaxedOnce(curve[i].NOK_per_kWh, region)
        /\ \A hour \in DOMAIN last.prices.prices :
              IF last.requests[DateStr(last.date)] > 0
              THEN IsTaxedOnce(last.prices.prices[hour], hour, last.region,
                               last.upstream[DateStr(last.date)].items)
              ELSE \E curve \in TaxCurves :
                      IsTaxedOnce(last.prices.prices[hour], hour, last.region, curve)

(* a cache hit in the taxed region: the flat curve, stored earlier as 1.21 *)
(* per kWh, is served while the upstream now offers the ramp               *)
C14_Witness ==
    /\ Returned("fetch_daily_prices") /\ ~last.prices.none
    /\ last.region = "NO1"
    /\ last.requests[DateStr(last.date)] = 0
    /\ last.upstream[DateStr(last.date)] = Http(200, RampCurve)
    /\ last.prices.prices[0] = 121000

----------------------------------------------------------------------------
(* C15: for every (year, month) and every start day d in 1..28 the billing *)
(* window is the calendar month when d = 1, and otherwise runs from day d  *)
(* of the preceding month (December of year-1 when month = 1) to day d-1   *)
(* of (year, month); d = 5 and (2025, 3) give [2025-02-05, 2025-03-04].    *)
LastDay(year, month) ==
    IF month \in {4, 6, 9, 11} THEN 30
    ELSE IF month # 2 THEN 31
    ELSE IF year % 400 = 0 \/ (year % 4 = 0 /\ year % 100 # 0) THEN 29 ELSE 28

ClaimedWindow(year, month, d) ==
    IF d = 1
    THEN <<year * 10000 + month * 100 + 1, year * 10000 + month * 100 + LastDay(year, month)>>
    ELSE <<(IF month = 1 THEN (year - 1) * 10000 + 1200 ELSE year * 10000 + (month - 1) * 100) + d,
           year * 10000 + month * 100 + d - 1>>

WindowIsAsClaimed ==
    /\ ~last.raised
    /\ <<last.window.start_date.iso, last.window.end_date.iso>> =
           ClaimedWindow(last.year, last.month, last.period_start_day)

----------------------------------------------------------------------------
(* C16: the sessions aggregated for a billing period are exactly the       *)
(* user's sessions that are completed, not cancelled and whose end date    *)
(* lies in the window, both bounds included; active, cancelled, other      *)
(* users' and outside sessions are never among them.                       *)
InWindow(s, window) ==
    /\ SqlDate(s.end_time) >= window.start_date.iso
    /\ SqlDate(s.end_time) <= window.end_date.iso

Completed(user_id, window) ==
    {s \in sessions : /\ s.user_id = user_id /\ s.end_time # NULL /\ ~s.cancelled
                      /\ InWindow(s, window)}

Aggregated == {r.session : r \in last.rows}

C16_PeriodSessionsExact ==
    (Returned("get_monthly_sessions") /\ ~last.raised) =>
        Aggregated = Completed(last.user, last.window)

(* nothing is aggregated that should not be *)
C16_NothingForeignAggregated ==
    (Returned("get_monthly_sessions") /\ ~last.raised) =>
        Aggregated \subseteq Completed(last.user, last.window)

(* and the sessions left out are those whose appliance was deleted since *)
C16_OnlyDeletedAppliancesMissing ==
    (Returned("get_monthly_sessions") /\ ~last.raised) =>
        \A s \in Completed(last.user, last.window) \ Aggregated :
            ~\E a \in apparater : a.id = s.apparat_id

----------------------------------------------------------------------------
(* C17: the period summary reports the number of selected sessions, the    *)
(* sums of their energy, spot cost, fixed cost and total cost, the average *)
(* price total cost / total energy (0 without energy) and remaining =      *)
(* budget - total cost when a budget is set, absent otherwise; for no      *)
(* session the sums and the average are 0 and remaining is the budget.     *)
SettingsOf(user_id) == CHOOSE r \in user_settings : r.user_id = user_id

Selected ==
    {r.session : r \in get_monthly_sessions(sessions, apparater, last.user, last.year,
                                            last.month,
                                            SettingsOf(last.user).period_start_day).rows}

Kwh(s) == s.kwh
SpotCost(s) == s.spot_cost_nok
FixedCost(s) == s.fixed_cost_nok
TotalCost(s) == s.total_cost_nok

(* what the summary says besides energy and average *)
SummaryCountsAndMoney ==
    LET summary == last.summary
        budget == SettingsOf(last.user).budget_nok
    IN  /\ ~last.raised
        /\ summary.session_count = Cardinality(Selected)
        /\ summary.spot_cost = Sum(Selected, SpotCost, 0)
        /\ summary.fixed_cost = Sum(Selected, FixedCost, 0)
        /\ summary.total_cost = Sum(Selected, TotalCost, 0)
        /\ summary.budget = budget
        /\ IF budget = NULL THEN summary.remaining.none
           ELSE /\ ~summary.remaining.none
                /\ summary.remaining.val = budget - Sum(Selected, TotalCost, 0)
        /\ Selected = {} =>
              /\ summary.total_kwh = 0 /\ summary.avg_price_per_kwh = 0
              /\ summary.spot_cost = 0 /\ summary.fixed_cost = 0
              /\ summary.total_cost = 0
              /\ budget # NULL => summary.remaining.val = budget

(* energy in 1e-2 kWh against the sum in 1e-4 kWh, the average in 1e-2 NOK *)
(* per kWh against the quotient of the sums                                *)
C17_SummaryIsTheSums ==
    Returned("get_monthly_summary") =>
        /\ SummaryCountsAndMoney
        /\ last.summary.total_kwh * 100 = Sum(Selected, Kwh, 0)
        /\ IF Sum(Selected, Kwh, 0) = 0 THEN last.summary.avg_price_per_kwh = 0
           ELSE last.summary.avg_price_per_kwh * Sum(Selected, Kwh, 0) =
                   Sum(Selected, TotalCost, 0) * 10000

(* the same with the energy and the average rounded to 2 decimals, the     *)
(* average being taken from the sums before they are rounded               *)
C17_SummaryIsTheRoundedSums ==
    Returned("get_monthly_summary") =>
        /\ SummaryCountsAndMoney
        /\ last.summary.total_kwh = RoundHalfEven(Sum(Selected, Kwh, 0), 100)
        /\ IF Sum(Selected, Kwh, 0) = 0 THEN last.summary.avg_price_per_kwh = 0
           ELSE last.summary.avg_price_per_kwh =
                   RoundHalfEven(Sum(Selected, TotalCost, 0) * 10000,
                                 Sum(Selected, Kwh, 0))

(* two sessions of 0.375 and 4.125 kWh for 2.00 and 7.99 kr under a budget *)
(* of 10.00 kr: 4.5 kWh, 9.99 kr, 2.22 kr per kWh, 0.01 kr remaining       *)
C17_Witness ==
    /\ Returned("get_monthly_summary") /\ ~last.raised
    /\ last.summary.session_count = 2
    /\ last.summary.total_kwh = 450 /\ last.summary.total_cost = 999
    /\ last.summary.avg_price_per_kwh = 222
    /\ ~last.summary.remaining.none /\ last.summary.remaining.val = 1

(* no session in the window and a budget: remaining is the budget *)
C17_EmptyWitness ==
    /\ Returned("get_monthly_summary") /\ ~last.raised
    /\ sessions # {} /\ Selected = {}
    /\ ~last.summary.remaining.none /\ last.summary.remaining.val = 1000

----------------------------------------------------------------------------
(* C18: check_budget_alert returns no alert when the budget is unset or    *)
(* <= 0; otherwise, with percentage = period cost / budget x 100, the      *)
(* exceeded alert when percentage >= 100, the warning alert when 80 <=     *)
(* percentage < 100 and none below 80: 79.9% none, 80.0% warning, 100.0%   *)
(* exceeded and not warning.                                               *)
PeriodCost == Sum(Selected, TotalCost, 0)

C18_WarningWitness ==
    /\ Returned("check_budget_alert")
    /\ SettingsOf(last.user).budget_nok = 1000 /\ PeriodCost = 800
    /\ last.alert = "warning"

(* 7.99 of 10.00 kr: 79.9%, no alert *)
C18_BelowWitness ==
    /\ Returned("check_budget_alert")
    /\ SettingsOf(last.user).budget_nok = 1000 /\ PeriodCost = 799
    /\ last.alert = "none"

(* sessions stopped and no budget: no alert *)
C18_UnsetWitness ==
    /\ Returned("check_budget_alert")
    /\ SettingsOf(last.user).budget_nok = NULL /\ PeriodCost >= 1000
    /\ last.alert = "none"

----------------------------------------------------------------------------
(* C19: check_runtime_alert returns the long-running alert exactly when    *)
(* the user has an active session that has run for 2 hours or more, and    *)
(* none otherwise; it changes no stored state.                             *)
Active(user_id) ==
    {s \in sessions : s.user_id = user_id /\ s.end_time = NULL /\ ~s.cancelled}

Elapsed(s) == last.clock - s.start_time

C19_RuntimeAlertExact ==
    Returned("check_runtime_alert") =>
        (last.alert = "long_session" <=>
            \E s \in Active(last.user) : Elapsed(s) >= 2 * TicksPerHour)

(* the direction that holds: an alert is never given without such a session *)
C19_AlertOnlyForLongSession ==
    Returned("check_runtime_alert") =>
        (last.alert = "long_session" =>
            \E s \in Active(last.user) : Elapsed(s) >= 2 * TicksPerHour)

(* and the claim holds whenever the user's active sessions are one at most *)
(* and its appliance still exists                                          *)
C19_ExactForOneVisibleSession ==
    (/\ Returned("check_runtime_alert")
     /\ Cardinality(Active(last.user)) <= 1
     /\ \A s \in Active(last.user) : \E a \in apparater : a.id = s.apparat_id) =>
        (last.alert = "long_session" <=>
            \E s \in Active(last.user) : Elapsed(s) >= 2 * TicksPerHour)

C19_NoStoredStateChanges ==
    [][(last'.phase = "returned" /\ last'.op = "check_runtime_alert" /\ last.phase = "idle")
          => UNCHANGED <<price_cache, apparater, sessions, next_id, user_settings>>]_vars

----------------------------------------------------------------------------
(* C20: check_max_duration returns the auto-stop alert exactly when the    *)
(* configured max-duration is > 0, the user has an active session and its  *)
(* elapsed hours are >= the configured value; it returns none whenever the *)
(* configured value is 0 or absent.                                        *)
C20_MaxDurationExact ==
    Returned("check_max_duration") =>
        LET max_hours == SettingsOf(last.user).max_duration_hours IN
        /\ last.alert = "max_duration" <=>
              /\ max_hours > 0
              /\ \E s \in Active(last.user) : Elapsed(s) >= max_hours * TicksPerHour
        /\ max_hours = 0 => last.alert = "none"

C20_AlertOnlyWhenConfigured ==
    Returned("check_max_duration") =>
        LET max_hours == SettingsOf(last.user).max_duration_hours IN
        /\ last.alert = "max_duration" =>
              /\ max_hours > 0
              /\ \E s \in Active(last.user) : Elapsed(s) >= max_hours * TicksPerHour
        /\ max_hours = 0 => last.alert = "none"

C20_ExactForOneVisibleSession ==
    (/\ Returned("check_max_duration")
     /\ Cardinality(Active(last.user)) <= 1
     /\ \A s \in Active(last.user) : \E a \in apparater : a.id = s.apparat_id) =>
        LET max_hours == SettingsOf(last.user).max_duration_hours IN
        (last.alert = "max_duration" <=>
              /\ max_hours > 0
              /\ \E s \in Active(last.user) : Elapsed(s) >= max_hours * TicksPerHour)

----------------------------------------------------------------------------
(* C21: when two cache misses for the same (date, region) are processed    *)
(* concurrently, what a reader gets for that key is either no curve or the *)
(* complete entry set written by exactly one of the writers, never a       *)
(* curve mixing entries of two writes.                                     *)
WriterOf(t, date_str, region) ==
    /\ last.fetchers[t].pc = "done" /\ ~last.fetchers[t].wrote.none
    /\ last.fetchers[t].date = date_str /\ last.fetchers[t].region = region

C21_ReaderSeesOneWholeWrite ==
    Returned("get_cached_prices") =>
        \/ last.prices.none
        \/ \E t \in Fetchers :
              /\ WriterOf(t, DateStr(last.date), last.region)
              /\ last.prices.prices = last.fetchers[t].wrote.prices

(* what holds: every entry a reader gets was written by one of the writers *)
(* of the key, and a write that covers the hours already stored replaces   *)
(* the curve wholesale                                                     *)
C21_EveryEntryWasWritten ==
    Returned("get_cached_prices") =>
        \A h \in DOMAIN last.prices.prices :
            \E t \in Fetchers :
                /\ WriterOf(t, DateStr(last.date), last.region)
                /\ h \in DOMAIN last.fetchers[t].wrote.prices
                /\ last.fetchers[t].wrote.prices[h] = last.prices.prices[h]

C21_WriteIsOneTransaction ==
    [][\A t \in Fetchers :
          (last.fetchers[t].pc = "awaiting" /\ last'.fetchers[t].pc = "done"
             /\ ~last'.fetchers[t].wrote.none) =>
              LET w == last'.fetchers[t] IN
              /\ Pairs(w.wrote.prices) \subseteq Stored(price_cache', w.date, w.region)
              /\ {p[1] : p \in Stored(price_cache, w.date, w.region)}
                    \subseteq DOMAIN w.wrote.prices
                 => Stored(price_cache', w.date, w.region) = Pairs(w.wrote.prices)
              /\ \A d \in Dates : d # w.date =>
                    Stored(price_cache', d, w.region) = Stored(price_cache, d, w.region)
      ]_vars

(* resuming right after the cache was read is the whole function *)
C21_ResumeIsTheFetch ==
    \A date \in Times, up \in RaceAnswers :
        LET f == fetch_daily_prices(Handler(price_cache), date, "NO1", SameEveryDay(up))
            r == FetchResume(price_cache, DateStr(date), "NO1", up)
        IN  ~CacheHit(get_cached_prices(price_cache, DateStr(date), "NO1")) =>
               /\ f.st.cache = r.cache /\ f.ret = r.ret /\ f.st.raised = r.raised

----------------------------------------------------------------------------
(* C22: every curve stored in the price cache and every curve returned by  *)
(* fetch_daily_prices has exactly 24 entries, one for each hour 0..23,     *)
(* whatever number of records the upstream response contained.             *)
StoredHours(date_str, region) == {p[1] : p \in Stored(price_cache, date_str, region)}

C22_CurvesAreComplete ==
    /\ \A d \in Dates, region \in VALID_REGIONS :
          StoredHours(d, region) = {} \/ StoredHours(d, region) = 0 .. 23
    /\ (Returned("fetch_daily_prices") /\ ~Falsy(last.prices)) =>
          DOMAIN last.prices.prices = 0 .. 23

(* what holds: a curve has the hours of the records of the response it     *)
(* was parsed from, all of them within 0..23, and what is returned for a   *)
(* key is what is stored for it                                            *)
C22_CurveHasTheHoursOfTheResponse ==
    /\ \A d \in Dates, region \in VALID_REGIONS : StoredHours(d, region) \subseteq 0 .. 23
    /\ (Returned("fetch_daily_prices") /\ ~last.prices.none) =>
          /\ DOMAIN last.prices.prices = StoredHours(DateStr(last.date), last.region)
          /\ last.requests[DateStr(last.date)] > 0 =>
                DOMAIN last.prices.prices =
                   {e.time_start : e \in {last.upstream[DateStr(last.date)].items[i] :
                       i \in DOMAIN last.upstream[DateStr(last.date)].items}}

----------------------------------------------------------------------------
(* C23: per user, appliance names are unique ignoring letter case:         *)
(* add_apparat for a name that matches an existing appliance of the user   *)
(* case-insensitively returns False and leaves the stored appliance        *)
(* unchanged; get_apparat finds an appliance under any casing of its name; *)
(* delete_apparat returns True exactly when an appliance was removed and   *)
(* False when none matched.                                                *)

(* a name with its letters in lower case *)
Lower(name) ==
    IF name = "Heater" THEN "heater" ELSE IF name = "Ørn" THEN "ørn" ELSE name

(* the step of a call that finds the table as it is in the unprimed state *)
Calling(op) == last.phase = "idle" /\ last'.phase = "returned" /\ last'.op = op

(* the property for a given notion of equal names *)
NamesContract(Fold(_)) ==
    LET Same(a) == a.user_id = last'.user /\ Fold(a.name) = Fold(last'.name) IN
    /\ \A a \in apparater', b \in apparater' :
          (a.user_id = b.user_id /\ Fold(a.name) = Fold(b.name)) => a = b
    /\ Calling("add_apparat") =>
          ((\E a \in apparater : Same(a)) => (~last'.ok /\ apparater' = apparater))
    /\ Calling("get_apparat") =>
          \A a \in apparater : Same(a) => a \in last'.rows
    /\ Calling("delete_apparat") =>
          /\ last'.ok <=> apparater' # apparater
          /\ ~last'.ok <=> ~\E a \in apparater : Same(a)

C23_NamesUniqueIgnoringCase == [][NamesContract(Lower)]_vars

(* what holds: the same with only the ASCII letters folded *)
C23_NamesUniqueIgnoringAsciiCase == [][NamesContract(NoCase)]_vars

----------------------------------------------------------------------------
(* C24: after start_session for a user with an existing appliance,         *)
(* get_active_session returns that session with the given watt mode,       *)
(* wattage and appliance name; after end_session or cancel_session is      *)
(* applied to that session, get_active_session returns none for the user.  *)
StartedRow(row) ==
    /\ row.session.id = last.session_id /\ row.session.user_id = last.user
    /\ row.session.watt_mode = last.mode /\ row.session.actual_watt = last.watt
    /\ row.apparat_name = last.name

(* fetchone() of get_active_session may return any row of the query *)
ActiveSessionIsTheStarted ==
    /\ get_active_session(sessions, apparater, last.user) # {}
    /\ \A row \in get_active_session(sessions, apparater, last.user) : StartedRow(row)

C24_StartThenActiveThenNone ==
    /\ Returned("start_session") => ActiveSessionIsTheStarted
    /\ (Returned("end_session") \/ Returned("cancel_session")) =>
          get_active_session(sessions, apparater, last.user) = {}

(* what holds: the same for a user who had no other active session when    *)
(* the session was started, and the session is always among the rows the   *)
(* query selects                                                           *)
C24_HoldsWithoutOtherActiveSession ==
    /\ Returned("start_session") =>
          /\ \E row \in get_active_session(sessions, apparater, last.user) : StartedRow(row)
          /\ Cardinality(ActiveRows(last.user)) = 1 => ActiveSessionIsTheStarted
    /\ (Returned("end_session") \/ Returned("cancel_session")) =>
          /\ \A row \in get_active_session(sessions, apparater, last.user) :
                row.session.id # last.session_id
          /\ next_id.sessions = 2 => get_active_session(sessions, apparater, last.user) = {}

----------------------------------------------------------------------------
(* C25: get_user_settings for a user without a settings row creates and    *)
(* returns the defaults fixed_cost_nok = 1.8, region = NO1,                *)
(* period_start_day = 1, max_duration_hours = 0 and no budget; a later     *)
(* call returns the same row without resetting any field.                  *)
HasSettings(tbl, user_id) == \E r \in tbl : r.user_id = user_id

(* fixed_cost is in 1e-2 NOK per kWh *)
DefaultsContract(fixed_cost) ==
    Calling("get_user_settings") =>
        IF HasSettings(user_settings, last'.user)
        THEN /\ user_settings' = user_settings
             /\ last'.settings \in user_settings
             /\ last'.settings.user_id = last'.user
        ELSE /\ last'.settings =
                   [user_id |-> last'.user, fixed_cost_nok |-> fixed_cost,
                    budget_nok |-> NULL, period_start_day |-> 1, region |-> "NO1",
                    max_duration_hours |-> 0]
             /\ user_settings' = user_settings \cup {last'.settings}

C25_DefaultsWithFixedCost180 == [][DefaultsContract(180)]_vars

(* what holds: the same with the fixed cost 1.0 of the table's DEFAULT *)
C25_DefaultsWithFixedCost100 == [][DefaultsContract(100)]_vars

----------------------------------------------------------------------------
(* C26: update_user_setting(user, k1=v1, ...) sets exactly the named       *)
(* settings among fixed_cost_nok, budget_nok, period_start_day, region and *)
(* max_duration_hours to the given values for that user, ignores any other *)
(* key, and leaves every setting not named, and every other user's         *)
(* settings, unchanged.                                                    *)
FiveSettings ==
    {"fixed_cost_nok", "budget_nok", "period_start_day", "region", "max_duration_hours"}

RowOf(tbl, user_id) == CHOOSE r \in tbl : r.user_id = user_id

(* the user's row before the call; the call creates it when there is none *)
RowBefore(user_id) ==
    IF HasSettings(user_settings, user_id) THEN RowOf(user_settings, user_id)
    ELSE [user_id |-> user_id, fixed_cost_nok |-> 100, budget_nok |-> NULL,
          period_start_day |-> 1, region |-> "NO1", max_duration_hours |-> 0]

OthersRows(tbl, user_id) == {r \in tbl : r.user_id # user_id}

C26_UpdateSetsExactlyTheNamed ==
    [][Calling("update_user_setting") =>
          /\ Cardinality({r \in user_settings' : r.user_id = last'.user}) = 1
          /\ LET after == RowOf(user_settings', last'.user)
                 before == RowBefore(last'.user)
             IN  /\ DOMAIN after = FiveSettings \cup {"user_id"}
                 /\ after.user_id = last'.user
                 /\ \A k \in FiveSettings :
                       after[k] = IF k \in DOMAIN last'.kwargs THEN last'.kwargs[k]
                                  ELSE before[k]
          /\ OthersRows(user_settings', last'.user) = OthersRows(user_settings, last'.user)
      ]_vars

(* the period start day was set together with a keyword that names no      *)
(* column, for a user whose fixed cost and region had been changed, while  *)
(* the other user has a budget                                             *)
C26_Witness ==
    /\ Returned("update_user_setting")
    /\ last.kwargs = [period_start_day |-> 5, created_at |-> 0]
    /\ \E r \in user_settings :
          /\ r.user_id = last.user /\ r.period_start_day = 5
          /\ r.fixed_cost_nok = 200 /\ r.region = "NO5"
    /\ \E r \in user_settings : r.user_id # last.user /\ r.budget_nok = 20000

----------------------------------------------------------------------------
(* C27: for any two distinct users A and B and any sequence of appliance,  *)
(* session, settings and clear operations performed by A, what B observes  *)
(* (get_all_apparater, get_apparat, get_active_session, history, monthly   *)
(* sessions, settings) is unchanged, and A's queries never return B's      *)
(* records.                                                                *)
ObservedBy(atbl, stbl, utbl, user_id) ==
    [apparater |-> get_all_apparater(atbl, user_id),
     apparat |-> [name \in Names |-> get_apparat(atbl, user_id, name)],
     active |-> get_active_session(stbl, atbl, user_id),
     history |-> get_session_history(stbl, atbl, user_id),
     monthly |-> [ym \in PeriodMonths, d \in PeriodStartDays |->
                     get_monthly_sessions(stbl, atbl, user_id, ym[1], ym[2], d).rows],
     settings |-> get_user_settings(utbl, user_id).row]

OwnRecordsOnly(user_id) ==
    LET o == ObservedBy(apparater, sessions, user_settings, user_id)
        rows == o.active \cup o.history
                  \cup UNION {o.monthly[x] : x \in DOMAIN o.monthly}
    IN  /\ \A a \in o.apparater \cup UNION {o.apparat[n] : n \in Names} :
              a.user_id = user_id
        /\ \A row \in rows :
              /\ row.session.user_id = user_id
              /\ \E a \in apparater : /\ a.id = row.session.apparat_id
                                      /\ a.user_id = user_id
                                      /\ a.name = row.apparat_name
        /\ o.settings.user_id = user_id

C27_UserIsolation ==
    /\ [](\A A \in NameUsers : OwnRecordsOnly(A))
    /\ [][\A A \in NameUsers : \A B \in NameUsers \ {A} :
             OperationBy({A}) =>
                ObservedBy(apparater', sessions', user_settings', B)
                   = ObservedBy(apparater, sessions, user_settings, B)
         ]_vars

(* user 2 has an appliance, a completed session (the first ever started)   *)
(* and a start day of 5, after user 1 has added and deleted an appliance,  *)
(* started a session, cleared the history and looked at the settings       *)
C27_Witness ==
    /\ \E s \in sessions : s.user_id = 2 /\ s.id = 1 /\ s.end_time # NULL /\ ~s.cancelled
    /\ \A s \in sessions : s.user_id = 2
    /\ next_id.sessions > 2
    /\ \A a \in apparater : a.user_id = 2
    /\ next_id.apparater > 2
    /\ \E r \in user_settings : r.user_id = 2 /\ r.period_start_day = 5
    /\ \E r \in user_settings : r.user_id = 1
    /\ get_session_history(sessions, apparater, 2) # {}

----------------------------------------------------------------------------
(* C28: under any sequence of /stop, /cancel and session-button updates,   *)
(* handled as the application hands them to the handlers, every stored     *)
(* session is active (no end time, not cancelled, no cost fields),         *)
(* completed (end time, not cancelled, energy and cost fields) or          *)
(* cancelled (cancelled, end time, no cost fields); a session changes only *)
(* from active to completed or to cancelled, and a completed or cancelled  *)
(* session is never modified again.                                        *)
CostFields(s) == {s.kwh, s.spot_cost_nok, s.fixed_cost_nok, s.total_cost_nok}

SessionState(s) ==
    CASE s.end_time = NULL /\ ~s.cancelled /\ CostFields(s) = {NULL} -> "active"
      [] s.end_time # NULL /\ ~s.cancelled /\ NULL \notin CostFields(s) -> "completed"
      [] s.end_time # NULL /\ s.cancelled /\ CostFields(s) = {NULL} -> "cancelled"
      [] OTHER -> "none"

SessionLifecycle ==
    \A s \in sessions : \A t \in sessions' :
        t.id = s.id =>
           \/ t = s
           \/ /\ SessionState(s) = "active"
              /\ SessionState(t) \in {"completed", "cancelled"}

----------------------------------------------------------------------------
(* C29: deleting an appliance leaves the user's sessions observably        *)
(* unchanged: get_active_session still returns an active session of that   *)
(* appliance, and get_session_history and get_monthly_sessions still       *)
(* include its completed sessions.                                         *)
SessionsObserved(atbl, stbl, user_id) ==
    [active |-> {row.session : row \in get_active_session(stbl, atbl, user_id)},
     history |-> {row.session : row \in get_session_history(stbl, atbl, user_id)},
     monthly |-> [ym \in PeriodMonths, d \in PeriodStartDays |->
                     {row.session :
                        row \in get_monthly_sessions(stbl, atbl, user_id,
                                                     ym[1], ym[2], d).rows}]]

C29_DeleteKeepsSessionsObserved ==
    [][\A user \in PeriodUsers :
          DeleteBy({user}) =>
             SessionsObserved(apparater', sessions', user)
                = SessionsObserved(apparater, sessions, user)]_vars

----------------------------------------------------------------------------
(* C30: for every period start day and every current date, the period     *)
(* summary shown by /stop and the budget alert evaluated right after it    *)
(* are computed over a billing window that contains the current date, so   *)
(* the session just finalized is counted in the totals and in the budget   *)
(* percentage.                                                             *)
StopWindowContainsToday ==
    /\ ~last.window.start_date.raised
    /\ ~last.window.end_date.raised
    /\ last.window.start_date.iso <= SqlDate(last.clock)
    /\ SqlDate(last.clock) <= last.window.end_date.iso

StoppedIsCounted ==
    /\ \E row \in last.rows : row.session.id = last.session_id
    /\ last.summary.session_count = Cardinality(last.rows)
    /\ last.summary.session_count >= 1
    /\ \A s \in sessions :
          s.id = last.session_id =>
             /\ last.summary.total_cost >= s.total_cost_nok
             /\ (/\ last.summary.budget # NULL
                 /\ s.total_cost_nok * 100 >= WarningPercent * last.summary.budget)
                   => last.alert # "none"

C30_StopCountsTheSession ==
    Returned("cmd_stop") => StopWindowContainsToday /\ StoppedIsCounted

(* it is so when the period is the calendar month, or the clock's day of   *)
(* the month is before the start day                                       *)
C30_HoldsBeforeTheStartDay ==
    Returned("cmd_stop") =>
       ((last.period_start_day = 1 \/ Today(last.clock).day < last.period_start_day)
          <=> StopWindowContainsToday /\ StoppedIsCounted)

----------------------------------------------------------------------------
(* C31: for a fixed period_start_day d in 1..28 the billing windows of     *)
(* consecutive (year, month) pairs partition the calendar: the window of   *)
(* the next month starts on the day after the window of the month ends,    *)
(* also from December to January, and the window computation never fails.  *)
NextMonth(year, month) == IF month = 12 THEN <<year + 1, 1>> ELSE <<year, month + 1>>

(* the day after the date yyyymmdd, by the calendar *)
DayAfter(iso) ==
    LET y == iso \div 10000
        m == (iso \div 100) % 100
        d == iso % 100
        leap == y % 4 = 0 /\ (y % 100 # 0 \/ y % 400 = 0)
        last_day == CASE m \in {4, 6, 9, 11} -> 30
                      [] m = 2 -> IF leap THEN 29 ELSE 28
                      [] OTHER -> 31
    IN  IF d < last_day THEN iso + 1
        ELSE IF m < 12 THEN y * 10000 + (m + 1) * 100 + 1
        ELSE (y + 1) * 10000 + 101

WindowMeetsTheNext ==
    LET next == NextMonth(last.year, last.month)
        w == PeriodWindow(next[1], next[2], last.period_start_day)
    IN  /\ ~last.raised
        /\ last.window.start_date.iso <= last.window.end_date.iso
        /\ next[1] <= MAXYEAR =>
              /\ ~w.start_date.raised /\ ~w.end_date.raised
              /\ w.start_date.iso = DayAfter(last.window.end_date.iso)

----------------------------------------------------------------------------
(* C32: when /clear is confirmed with no session operation since the       *)
(* prompt, the sessions deleted are exactly the sessions announced in the  *)
(* prompt: the reported count equals the announced count, and a session    *)
(* that is still active is not deleted.                                    *)
Announced == {row.session : row \in last.rows}

C32_ClearDeletesTheAnnounced ==
    Returned("callback_clear") =>
       /\ last.deleted = Announced
       /\ Cardinality(last.deleted) = Cardinality(last.rows)
       /\ \A s \in last.deleted : s.end_time # NULL

(* what is deleted is every session of the user, the announced ones among  *)
(* them, and no session of the user is left                                *)
C32_ClearDeletesEverySession ==
    Returned("callback_clear") =>
       /\ Announced \subseteq last.deleted
       /\ \A s \in last.deleted : s.user_id = last.user
       /\ \A s \in sessions : s.user_id # last.user

----------------------------------------------------------------------------
(* C33: every appliance created through /add is stored with                *)
(* 0 < low_watt <= high_watt (reversed bounds swapped, non-positive bounds *)
(* rejected with no row created), and every session started through the   *)
(* watt-mode selection has a wattage w with low_watt <= w <= high_watt of  *)
(* its appliance, in each of the modes low, high and avg.                  *)
AddedAsTyped(a) ==
    \E args \in AddWatts :
        /\ args[1] > 0 /\ args[2] > 0
        /\ a.low_watt = (IF args[1] <= args[2] THEN args[1] ELSE args[2])
        /\ a.high_watt = (IF args[1] <= args[2] THEN args[2] ELSE args[1])

WithinBounds(s, a) == a.low_watt <= s.actual_watt /\ s.actual_watt <= a.high_watt

C33_WattsWithinBounds ==
    /\ [](/\ \A a \in apparater : 0 < a.low_watt /\ a.low_watt <= a.high_watt
          /\ \A s \in sessions : \A a \in apparater :
                a.id = s.apparat_id => WithinBounds(s, a))
    /\ [][/\ \A a \in apparater' \ apparater : AddedAsTyped(a)
          /\ \A s \in sessions' :
                (\A t \in sessions : t.id # s.id) =>
                   /\ s.watt_mode \in Modes
                   /\ \E a \in apparater : a.id = s.apparat_id /\ WithinBounds(s, a)
      ]_vars

(* the 500 W / 1000 W appliance with a session at its average and one at   *)
(* its high setting                                                        *)
C33_Witness ==
    /\ \E a \in apparater : a.low_watt = 500 /\ a.high_watt = 1000
    /\ \E s \in sessions : s.watt_mode = "avg" /\ s.actual_watt = 750
    /\ \E s \in sessions : s.watt_mode = "high" /\ s.actual_watt = 1000

----------------------------------------------------------------------------
(* C34: after any sequence of /set_region commands with arbitrary          *)
(* arguments and region callbacks with arbitrary payloads region:<x>, the  *)
(* region stored in a user's settings is one of NO1 .. NO5; an invalid     *)
(* value is rejected and leaves the stored region unchanged.               *)
RegionOps == {"cmd_set_region", "callback_region"}

InvalidLeavesRegion(ops) ==
    \A op \in ops :
       (Calling(op) /\ upper(last'.name) \notin VALID_REGIONS)
          => \A user \in NameUsers :
                {r.region : r \in get_user_settings(user_settings', user).user_settings}
                   = {r.region : r \in get_user_settings(user_settings, user).user_settings}

C34_StoredRegionIsValid ==
    /\ [](\A r \in user_settings : r.region \in VALID_REGIONS)
    /\ [][InvalidLeavesRegion(RegionOps)]_vars

(* it is so for the command; the callback stores what the payload holds *)
C34_CommandStoresValidRegion ==
    [][/\ InvalidLeavesRegion({"cmd_set_region"})
       /\ Calling("cmd_set_region") =>
             \A r \in user_settings' :
                r.user_id = last'.user =>
                   \/ r \in user_settings
                   \/ r.region = upper(last'.name) /\ r.region \in VALID_REGIONS
       /\ Calling("callback_region") /\ last'.ok =>
             \E r \in user_settings' : r.user_id = last'.user /\ r.region = last'.name
      ]_vars

====
